---- MODULE Spec2Model ----
(***************************************************************************)
(* Axiometa Binary Clock firmware (axiometa-binary-clock-1.5.0.ino).       *)
(*                                                                         *)
(* The device is a single-threaded program: setup() runs once after every  *)
(* reset and loop() runs for ever after it.  The model follows the program *)
(* counter through setup() and through the parts of one loop() iteration,  *)
(* and keeps the persistent store (Preferences), the radio, the web server *)
(* and the LED driver as plain data.                                       *)
(***************************************************************************)
EXTENDS Integers, Sequences, FiniteSets, TLC

(***************************************************************************)
(* Program constants.                                                      *)
(***************************************************************************)
NUM_LEDS == 18
JOIN_MAX_ATTEMPTS == 20
JOIN_DELAY_MS == 500
NTP_MAX_ATTEMPTS == 10
NTP_DELAY_MS == 500
SETUP_DELAY_MS == 1000
SPIN_MS == 3000
SPIN_BRIGHTNESS == 180
PULSE_BRIGHTNESS == 100
\* greenPulseEffect(): three pulses of 100 + 101 frames, 10 ms each, then 200 ms
PULSE_MS == 3 * (100 + 101) * 10 + 200
SAVE_FLUSH_DELAY_MS == 100
RESTART_DELAY_MS == 8000
WIFI_CHECK_MS == 2000
MANUAL_TICK_MS == 1000
MANUAL_TIMER_REWIND_MS == 1000
ANIM_STEP_MS == 80
LOOP_DELAY_MS == 5
DEFAULT_BRIGHTNESS == 50
DEFAULT_MANUAL_HOUR == 12
DEFAULT_COLOR_CODE == 16777215

(***************************************************************************)
(* Bounds of the model.                                                    *)
(***************************************************************************)
\* loop() iterations are only followed while millis() stays at or below this
MaxUptime == 30000

\* how long one loop() iteration can take, the trailing delay(5) included
Durations == {4000, 8000}

\* the instants the system clock is observed at (seconds, local time)
RtcValues == {46799, 46800}

\* how many loop() iterations the display is followed for
DisplayIterations == 3

\* the length of a loop() iteration that lets the manual clock tick every time
ManualTick == MANUAL_TICK_MS

\* how long loop() is followed for while the manual clock is used, in ms
ManualUptimeMs == 2000

\* how long one loop() iteration takes while the manual clock is used
ManualDurations == {500, 1000, 2000}

\* the manual clocks a device is switched on with
ManualStarts == { <<23, 59, 58>>, <<12, 0, 0>> }

\* what a client puts into the fields of a manual-time request
ManualHourInputs == { <<"2", "3">>, <<"2", "4">> }
ManualMinuteInputs == { <<"5", "9">> }
ManualSecondInputs == { <<"5", "9">>, <<"6", "0">> }

\* seconds in a day
DaySeconds == 24 * 60 * 60

\* what the user can type into the setup page
SsidInputs == { <<"A">>, <<"A", "\"">> }
PasswordInputs == { <<>>, <<"p">>, <<"\\">> }

\* unsigned long is narrower here than on the device: TLC's integers are 32 bit signed
ULongMod == 2^30
ULong(x) == x % ULongMod

(***************************************************************************)
(* Colours (CRGB) as <<r, g, b>>.                                          *)
(***************************************************************************)
Black == <<0, 0, 0>>
White == <<255, 255, 255>>
Blue == <<0, 0, 255>>
Red == <<255, 0, 0>>
Green == <<0, 128, 0>>
PulseGreen == <<0, 250, 0>>

\* CRGB(uint32_t colorcode)
ColorFromCode(c) == << (c \div 65536) % 256, (c \div 256) % 256, c % 256 >>

LedIndex == 0 .. (NUM_LEDS - 1)
AllDark == [i \in LedIndex |-> Black]
FillSolid(c) == [i \in LedIndex |-> c]

(***************************************************************************)
(* Arduino String operations on sequences of characters (0-based indices). *)
(***************************************************************************)
\* an int handed to an unsigned parameter: a negative value becomes a huge one
AsUnsigned(i) == IF i < 0 THEN ULongMod + i ELSE i

Min(a, b) == IF a < b THEN a ELSE b

\* String::indexOf(pat, fromIndex), pat not empty
IndexOf(s, pat, from) ==
  LET u == AsUnsigned(from)
      hits == { i \in u .. (Len(s) - Len(pat)) :
                  /\ s[i + 1] = pat[1]
                  /\ SubSeq(s, i + 1, i + Len(pat)) = pat }
  IN  IF u >= Len(s) \/ hits = {} THEN -1
      ELSE CHOOSE i \in hits : \A j \in hits : i <= j

\* String::substring(left, right)
Substring(s, left, right) ==
  LET l0 == AsUnsigned(left)
      r0 == AsUnsigned(right)
      l == IF l0 > r0 THEN r0 ELSE l0
      r == IF l0 > r0 THEN l0 ELSE r0
  IN  IF l >= Len(s) THEN <<>>
      ELSE SubSeq(s, l + 1, Min(r, Len(s)))

Quote == <<"\"">>
KeySsid == <<"s", "s", "i", "d", "\"", ":", "\"">>
KeyPassword == <<"p", "a", "s", "s", "w", "o", "r", "d", "\"", ":", "\"">>

\* the body the setup page posts: JSON.stringify({ssid: ..., password: ...})
RECURSIVE JsonEscape(_)
JsonEscape(s) ==
  IF s = <<>> THEN <<>>
  ELSE (IF Head(s) = "\"" \/ Head(s) = "\\" THEN <<"\\", Head(s)>> ELSE <<Head(s)>>)
       \o JsonEscape(Tail(s))

SaveBody(ssid, password) ==
  <<"{", "\"">> \o KeySsid \o JsonEscape(ssid) \o <<"\"", ",", "\"">>
  \o KeyPassword \o JsonEscape(password) \o <<"\"", "}">>

\* the two substring extractions of the /save handler
ParseSsid(body) ==
  LET ssidStart == IndexOf(body, KeySsid, 0) + 7
      ssidEnd == IndexOf(body, Quote, ssidStart)
  IN  Substring(body, ssidStart, ssidEnd)

ParsePassword(body) ==
  LET passStart == IndexOf(body, KeyPassword, 0) + 11
      passEnd == IndexOf(body, Quote, passStart)
  IN  Substring(body, passStart, passEnd)

(***************************************************************************)
(* Numbers in text: String::toInt(), isDigit(), String::trim(), strtol().  *)
(***************************************************************************)
Digits == <<"0", "1", "2", "3", "4", "5", "6", "7", "8", "9">>
IsDigit(c) == \E i \in 1 .. 10 : Digits[i] = c
DigitValue(c) == (CHOOSE i \in 1 .. 10 : Digits[i] = c) - 1

HexLetters == <<"a", "b", "c", "d", "e", "f">>
HexCapitals == <<"A", "B", "C", "D", "E", "F">>
IsHexDigit(c) == IsDigit(c) \/ \E i \in 1 .. 6 : HexLetters[i] = c \/ HexCapitals[i] = c
HexDigitValue(c) ==
  IF IsDigit(c) THEN DigitValue(c)
  ELSE 9 + (CHOOSE i \in 1 .. 6 : HexLetters[i] = c \/ HexCapitals[i] = c)

\* isspace()
IsSpace(c) == c \in {" ", "\t", "\n", "\r"}

RECURSIVE SkipSpaces(_)
SkipSpaces(s) ==
  IF s /= <<>> /\ IsSpace(Head(s)) THEN SkipSpaces(Tail(s)) ELSE s

\* String::trim()
RECURSIVE DropTrailingSpaces(_)
DropTrailingSpaces(s) ==
  IF s /= <<>> /\ IsSpace(s[Len(s)])
    THEN DropTrailingSpaces(SubSeq(s, 1, Len(s) - 1))
    ELSE s

Trim(s) == DropTrailingSpaces(SkipSpaces(s))

\* the value of the longest prefix of s made of digits of the base, 0 when empty
RECURSIVE LeadingNumber(_, _, _)
LeadingNumber(s, base, acc) ==
  IF s = <<>> THEN acc
  ELSE IF base = 10 /\ IsDigit(Head(s))
    THEN LeadingNumber(Tail(s), base, acc * 10 + DigitValue(Head(s)))
  ELSE IF base = 16 /\ IsHexDigit(Head(s))
    THEN LeadingNumber(Tail(s), base, acc * 16 + HexDigitValue(Head(s)))
  ELSE acc

\* strtol(s, NULL, base) for base 10 and 16: blanks, a sign, for base 16 an optional
\* 0x, then digits up to the first character that is none
StrToL(s, base) ==
  LET t == SkipSpaces(s)
      negative == t /= <<>> /\ Head(t) = "-"
      u == IF t /= <<>> /\ Head(t) \in {"-", "+"} THEN Tail(t) ELSE t
      v == IF /\ base = 16
              /\ Len(u) >= 3
              /\ u[1] = "0"
              /\ u[2] \in {"x", "X"}
              /\ IsHexDigit(u[3])
             THEN SubSeq(u, 3, Len(u))
             ELSE u
      n == LeadingNumber(v, base, 0)
  IN  IF negative THEN 0 - n ELSE n

\* String::toInt(): atol() of the text
ToInt(s) == StrToL(s, 10)

\* the digits of s, as the lambda of the /api/manualtime handler collects them
RECURSIVE OnlyDigits(_)
OnlyDigits(s) ==
  IF s = <<>> THEN <<>>
  ELSE (IF IsDigit(Head(s)) THEN <<Head(s)>> ELSE <<>>) \o OnlyDigits(Tail(s))

\* a value stored into a uint8_t
UInt8(x) == x % 256

\* hexToRGB(hex)
HexToRGB(hex) ==
  LET h == IF hex /= <<>> /\ Head(hex) = "#" THEN Substring(hex, 1, Len(hex)) ELSE hex
      rgb == StrToL(h, 16)
  IN  << (rgb \div 65536) % 256, (rgb \div 256) % 256, rgb % 256 >>

\* (uint32_t) of a CRGB
CodeOfColor(c) == c[1] * 65536 + c[2] * 256 + c[3]

(***************************************************************************)
(* Request bodies of the panel: JSON.stringify() of an object whose fields *)
(* are strings (quoted and escaped) or bare words (numbers, true, false).  *)
(***************************************************************************)
KeyTimezone == <<"t", "i", "m", "e", "z", "o", "n", "e">>
KeyTimeFormat == <<"t", "i", "m", "e", "F", "o", "r", "m", "a", "t">>
KeyBrightness == <<"b", "r", "i", "g", "h", "t", "n", "e", "s", "s">>
KeyManualMode == <<"m", "a", "n", "u", "a", "l", "M", "o", "d", "e">>
KeyHourColor == <<"h", "o", "u", "r", "C", "o", "l", "o", "r">>
KeyMinuteColor == <<"m", "i", "n", "u", "t", "e", "C", "o", "l", "o", "r">>
KeySecondColor == <<"s", "e", "c", "o", "n", "d", "C", "o", "l", "o", "r">>
KeyManualHour == <<"m", "a", "n", "u", "a", "l", "H", "o", "u", "r">>
KeyManualMinute == <<"m", "a", "n", "u", "a", "l", "M", "i", "n", "u", "t", "e">>
KeyManualSecond == <<"m", "a", "n", "u", "a", "l", "S", "e", "c", "o", "n", "d">>

Comma == <<",">>
Colon == <<":">>
CloseBrace == <<"}">>

\* "key":value
FieldText(f) ==
  Quote \o f.key \o Quote \o Colon
  \o (IF f.quoted THEN Quote \o JsonEscape(f.value) \o Quote ELSE f.value)

RECURSIVE JoinFields(_)
JoinFields(fields) ==
  IF fields = <<>> THEN <<>>
  ELSE FieldText(Head(fields))
       \o (IF Tail(fields) = <<>> THEN <<>> ELSE Comma \o JoinFields(Tail(fields)))

JsonBody(fields) == <<"{">> \o JoinFields(fields) \o CloseBrace

StringField(k, v) == [key |-> k, quoted |-> TRUE, value |-> v]
BareField(k, v) == [key |-> k, quoted |-> FALSE, value |-> v]

(***************************************************************************)
(* LED layout and frames.                                                  *)
(***************************************************************************)
\* the hour row wired from LED 0
HourLedFromZero == <<4, 3, 2, 1, 0>>

HOUR_LED == <<5, 4, 3, 2, 1>>
MIN_LED == <<11, 10, 9, 8, 7, 6>>
SEC_LED == <<17, 16, 15, 14, 13, 12>>
PerimeterOrder == <<0, 1, 2, 3, 4, 5, 11, 17, 16, 15, 14, 13, 12, 6>>
PerimeterCount == Len(PerimeterOrder)

\* value & (1 << bit)
BitSet(value, bit) == (value \div (2 ^ bit)) % 2 = 1

\* one frame of an animation: clear, then head and two trailing LEDs
TrailFrame(pos, head, trail1, trail2) ==
  LET i == PerimeterOrder[(pos % PerimeterCount) + 1]
      j == PerimeterOrder[((pos + 1) % PerimeterCount) + 1]
      k == PerimeterOrder[((pos + 2) % PerimeterCount) + 1]
  IN  [n \in LedIndex |->
         IF n = k THEN trail2
         ELSE IF n = j THEN trail1
         ELSE IF n = i THEN head
         ELSE Black]

\* the frame spinningPerimeterEffect() settles on: one frame every 60 ms for 3000 ms
SpinLastFrame == TrailFrame((SPIN_MS \div 60) - 1, <<0, 0, 255>>, <<0, 0, 80>>, <<0, 0, 30>>)

\* the frame spinningPerimeterEffectNonBlocking() draws at position pos
AnimFrame(pos) == TrailFrame(pos, <<0, 0, 255>>, <<0, 0, 150>>, <<0, 0, 60>>)

\* drawClock(hour, minute, second, isPM): clear, then one LED per 1-bit
DrawClockNarrow(hour, minute, second, isPM, s) ==
  [n \in LedIndex |->
     IF \E bit \in 0 .. 4 : BitSet(second, bit) /\ SEC_LED[bit + 1] = n
       THEN s.secondColor
     ELSE IF \E bit \in 0 .. 5 : BitSet(minute, bit) /\ MIN_LED[bit + 1] = n
       THEN s.minuteColor
     ELSE IF \E bit \in 0 .. 4 : BitSet(hour, bit) /\ HOUR_LED[bit + 1] = n
       THEN s.hourColor
     ELSE Black]

\* a frame that shows PM on LED 0
DrawClockPmLed(hour, minute, second, isPM, s) ==
  [n \in LedIndex |->
     IF n = 0 /\ isPM THEN s.hourColor
     ELSE IF \E bit \in 0 .. 5 : BitSet(second, bit) /\ SEC_LED[bit + 1] = n
       THEN s.secondColor
     ELSE IF \E bit \in 0 .. 5 : BitSet(minute, bit) /\ MIN_LED[bit + 1] = n
       THEN s.minuteColor
     ELSE IF \E bit \in 0 .. 4 : BitSet(hour, bit) /\ HOUR_LED[bit + 1] = n
       THEN s.hourColor
     ELSE Black]

DrawClock(hour, minute, second, isPM, s) ==
  [n \in LedIndex |->
     IF \E bit \in 0 .. 5 : BitSet(second, bit) /\ SEC_LED[bit + 1] = n
       THEN s.secondColor
     ELSE IF \E bit \in 0 .. 5 : BitSet(minute, bit) /\ MIN_LED[bit + 1] = n
       THEN s.minuteColor
     ELSE IF \E bit \in 0 .. 4 : BitSet(hour, bit) /\ HOUR_LED[bit + 1] = n
       THEN s.hourColor
     ELSE Black]

\* the 12-hour conversion both display paths of loop() apply
DisplayHourNoMidnight(hour, use24Hour) ==
  IF ~use24Hour /\ hour > 12 THEN hour - 12 ELSE hour

DisplayHour(hour, use24Hour) ==
  IF ~use24Hour /\ hour > 12 THEN hour - 12
  ELSE IF ~use24Hour /\ hour = 0 THEN 12
  ELSE hour

\* localtime_r(): the system clock counts seconds of local time
LocalTime(t) ==
  [tm_hour |-> (t \div 3600) % 24, tm_min |-> (t \div 60) % 60, tm_sec |-> t % 60]

(***************************************************************************)
(* Preferences: a key is either stored or absent.                          *)
(***************************************************************************)
PrefGet(p, key, default) == IF key \in DOMAIN p THEN p[key] ELSE default

PrefPut(p, key, value) ==
  [k \in (DOMAIN p) \cup {key} |-> IF k = key THEN value ELSE p[k]]

PrefRemove(p, key) == [k \in (DOMAIN p) \ {key} |-> p[k]]

NoPreferences == [k \in {} |-> 0]

\* "EET-2EEST,M3.5.0/3,M10.5.0/4"
DefaultTimezone ==
  <<"E", "E", "T", "-", "2", "E", "E", "S", "T", ",", "M", "3", ".", "5",
    ".", "0", "/", "3", ",", "M", "1", "0", ".", "5", ".", "0", "/", "4">>

\* configTzTime() has not been called
NoTimezone == <<>>

\* struct ClockSettings, as declared
ClockSettings ==
  [timezone |-> DefaultTimezone, brightness |-> DEFAULT_BRIGHTNESS,
   hourColor |-> White, minuteColor |-> Blue, secondColor |-> Red,
   use24Hour |-> TRUE, manualMode |-> FALSE,
   manualHour |-> DEFAULT_MANUAL_HOUR, manualMinute |-> 0, manualSecond |-> 0]

\* loadSettings()
LoadSettingsDefaultTime(p) ==
  [timezone |-> PrefGet(p, "timezone", DefaultTimezone),
   brightness |-> PrefGet(p, "brightness", DEFAULT_BRIGHTNESS),
   use24Hour |-> PrefGet(p, "use24Hour", TRUE),
   manualMode |-> PrefGet(p, "manualMode", FALSE),
   manualHour |-> DEFAULT_MANUAL_HOUR,
   manualMinute |-> 0,
   manualSecond |-> 0,
   hourColor |-> ColorFromCode(PrefGet(p, "hourColor", DEFAULT_COLOR_CODE)),
   minuteColor |-> ColorFromCode(PrefGet(p, "minuteColor", DEFAULT_COLOR_CODE)),
   secondColor |-> ColorFromCode(PrefGet(p, "secondColor", DEFAULT_COLOR_CODE))]

LoadSettingsMinuteForSecond(p) ==
  [timezone |-> PrefGet(p, "timezone", DefaultTimezone),
   brightness |-> PrefGet(p, "brightness", DEFAULT_BRIGHTNESS),
   use24Hour |-> PrefGet(p, "use24Hour", TRUE),
   manualMode |-> PrefGet(p, "manualMode", FALSE),
   manualHour |-> PrefGet(p, "manualHour", DEFAULT_MANUAL_HOUR),
   manualMinute |-> PrefGet(p, "manualMinute", 0),
   manualSecond |-> PrefGet(p, "manualSecond", 0),
   hourColor |-> ColorFromCode(PrefGet(p, "hourColor", DEFAULT_COLOR_CODE)),
   minuteColor |-> ColorFromCode(PrefGet(p, "minuteColor", DEFAULT_COLOR_CODE)),
   secondColor |-> ColorFromCode(PrefGet(p, "minuteColor", DEFAULT_COLOR_CODE))]

LoadSettings(p) ==
  [timezone |-> PrefGet(p, "timezone", DefaultTimezone),
   brightness |-> PrefGet(p, "brightness", DEFAULT_BRIGHTNESS),
   use24Hour |-> PrefGet(p, "use24Hour", TRUE),
   manualMode |-> PrefGet(p, "manualMode", FALSE),
   manualHour |-> PrefGet(p, "manualHour", DEFAULT_MANUAL_HOUR),
   manualMinute |-> PrefGet(p, "manualMinute", 0),
   manualSecond |-> PrefGet(p, "manualSecond", 0),
   hourColor |-> ColorFromCode(PrefGet(p, "hourColor", DEFAULT_COLOR_CODE)),
   minuteColor |-> ColorFromCode(PrefGet(p, "minuteColor", DEFAULT_COLOR_CODE)),
   secondColor |-> ColorFromCode(PrefGet(p, "secondColor", DEFAULT_COLOR_CODE))]

\* saveWiFiCredentials(ssid, password)
SaveWiFiCredentials(p, ssid, password) ==
  PrefPut(PrefPut(p, "wifiSSID", ssid), "wifiPass", password)

\* the two preferences.remove() calls of the /api/resetwifi handler
RemoveAllKeys(p) == NoPreferences
RemoveCredentialsKeepSsid(p) == PrefRemove(p, "wifiPass")
RemoveCredentials(p) == PrefRemove(PrefRemove(p, "wifiSSID"), "wifiPass")

(***************************************************************************)
(* State.                                                                  *)
(***************************************************************************)
VARIABLES
  preferences,          \* the persistent store, kept over restarts
  isConfigMode, savedSSID, savedPassword, pendingRestart, restartAt,
  settings, lastDisplayedSecond, lastManualUpdate,
  lastWiFiCheck,        \* static of loop()
  animPos, animLastUpdate,  \* statics of spinningPerimeterEffectNonBlocking()
  leds, wifi_led, brightness,  \* the two LED strips and FastLED's brightness
  drawn,                \* the arguments of the last drawClock() call since the reset
  wifiMode, wifiBegin, wifiStatus,  \* the radio: role, WiFi.begin() arguments, status
  dnsStarted, server, ntpTimezone, ntpSynced, mdnsOk,
  rtc,                  \* time(nullptr)
  clock,                \* millis()
  pc,                   \* where the program is
  attempts, ntpAttempts, joinCheckRead,  \* locals of setup() and startNormalMode()
  response,             \* status of the HTTP response sent in this iteration or right
                        \* before the reset, 0: none
  submitted,            \* what the user last typed into the setup page
  handledAt,            \* millis() when the last /save request since the reset was taken up
  restartCause,         \* why the last reset happened
  restartsSinceSave,    \* deferred restarts since the last credential update
  request,              \* the panel API request handled in this iteration, if any
  replyText             \* the text GET /api/time answered with in this iteration

ramVars == <<isConfigMode, savedSSID, savedPassword, pendingRestart, restartAt,
             settings, lastDisplayedSecond, lastManualUpdate, lastWiFiCheck,
             animPos, animLastUpdate>>
ledVars == <<leds, wifi_led, brightness, drawn>>
netVars == <<wifiMode, wifiBegin, wifiStatus, dnsStarted, server, ntpTimezone,
             ntpSynced, mdnsOk>>
setupVars == <<attempts, ntpAttempts, joinCheckRead>>
ghostVars == <<response, submitted, handledAt, restartCause, restartsSinceSave,
               request, replyText>>
vars == <<preferences, ramVars, ledVars, netVars, rtc, clock, pc, setupVars, ghostVars>>

NoCredentials == <<>>
NoSubmission == <<>>
NothingAsked == [route |-> "none"]
NotDrawn == <<>>
NoText == <<>>

\* volatile bool pendingRestart = false
InitialPendingRestart == FALSE

PowerOn ==
  /\ isConfigMode = FALSE
  /\ savedSSID = <<>>
  /\ savedPassword = <<>>
  /\ pendingRestart = InitialPendingRestart
  /\ restartAt = 0
  /\ settings = ClockSettings
  /\ lastDisplayedSecond = -1
  /\ lastManualUpdate = 0
  /\ lastWiFiCheck = 0
  /\ animPos = 0
  /\ animLastUpdate = 0
  /\ leds = AllDark
  /\ drawn = NotDrawn
  /\ wifi_led = Black
  /\ brightness = 255
  /\ wifiMode = "WIFI_OFF"
  /\ wifiBegin = NoCredentials
  /\ wifiStatus = "WL_DISCONNECTED"
  /\ dnsStarted = FALSE
  /\ server = "none"
  /\ ntpTimezone = NoTimezone
  /\ ntpSynced = FALSE
  /\ mdnsOk = FALSE
  /\ clock = 0
  /\ pc = "boot"
  /\ attempts = 0
  /\ ntpAttempts = 0
  /\ joinCheckRead = "none"

\* ESP.restart(): everything but the persistent store starts over
Restart(cause) ==
  /\ isConfigMode' = FALSE
  /\ savedSSID' = <<>>
  /\ savedPassword' = <<>>
  /\ pendingRestart' = InitialPendingRestart
  /\ restartAt' = 0
  /\ settings' = ClockSettings
  /\ lastDisplayedSecond' = -1
  /\ lastManualUpdate' = 0
  /\ lastWiFiCheck' = 0
  /\ animPos' = 0
  /\ animLastUpdate' = 0
  /\ leds' = AllDark
  /\ drawn' = NotDrawn
  /\ wifi_led' = Black
  /\ brightness' = 255
  /\ wifiMode' = "WIFI_OFF"
  /\ wifiBegin' = NoCredentials
  /\ wifiStatus' = "WL_DISCONNECTED"
  /\ dnsStarted' = FALSE
  /\ server' = "none"
  /\ ntpTimezone' = NoTimezone
  /\ ntpSynced' = FALSE
  /\ mdnsOk' = FALSE
  /\ clock' = 0
  /\ pc' = "boot"
  /\ attempts' = 0
  /\ ntpAttempts' = 0
  /\ joinCheckRead' = "none"
  /\ handledAt' = 0
  /\ restartCause' = cause
  /\ request' = NothingAsked
  /\ replyText' = NoText

\* a device out of the factory: nothing stored, powered on
Init ==
  /\ PowerOn
  /\ preferences = NoPreferences
  /\ rtc \in RtcValues
  /\ response = 0
  /\ submitted = NoSubmission
  /\ handledAt = 0
  /\ restartCause = "power"
  /\ restartsSinceSave = 0
  /\ request = NothingAsked
  /\ replyText = NoText

(***************************************************************************)
(* setup()                                                                 *)
(***************************************************************************)
\* updateWiFiLED()
WiFiLedColorGreen(status) == Green
WiFiLedColor(status) == IF status = "WL_CONNECTED" THEN Green ELSE Red

\* savedSSID.length() > 0
HasSavedSSIDAlways(ssid) == TRUE
HasSavedSSID(ssid) == Len(ssid) > 0

\* the condition of the join-wait loop
JoinMustWaitOnceMore(status, n) == status /= "WL_CONNECTED" /\ n <= JOIN_MAX_ATTEMPTS
JoinMustWait(status, n) == status /= "WL_CONNECTED" /\ n < JOIN_MAX_ATTEMPTS

\* the check after the join-wait loop
JoinSucceededAlways(status) == TRUE
JoinSucceededInverted(status) == status /= "WL_CONNECTED"
JoinSucceeded(status) == status = "WL_CONNECTED"

\* the condition of the time-sync wait loop
NtpMustWait(gotTime, n) == ~gotTime /\ n < NTP_MAX_ATTEMPTS

\* startConfigMode(), followed by the updateWiFiLED() setup() calls after it
StartConfigMode ==
  /\ isConfigMode' = TRUE
  /\ wifiMode' = "WIFI_AP"
  /\ wifiStatus' = "WL_DISCONNECTED"
  /\ dnsStarted' = TRUE
  /\ server' = "config"
  /\ wifi_led' = WiFiLedColor(wifiStatus')
  /\ pc' = "setup_done"

\* setup() up to the branch on the stored SSID; the join is started when there is one
SetupBegin ==
  /\ pc = "boot"
  /\ LET loaded == LoadSettings(preferences)
         ssid == PrefGet(preferences, "wifiSSID", <<>>)
         password == PrefGet(preferences, "wifiPass", <<>>)
     IN  /\ settings' = loaded
         /\ savedSSID' = ssid
         /\ savedPassword' = password
         /\ response' = 0
         /\ IF HasSavedSSID(ssid)
              THEN /\ clock' = ULong(clock + SETUP_DELAY_MS + SPIN_MS)
                   /\ leds' = SpinLastFrame
                   /\ brightness' = SPIN_BRIGHTNESS
                   /\ wifi_led' = Red
                   /\ wifiMode' = "WIFI_STA"
                   /\ wifiBegin' = <<ssid, password>>
                   /\ attempts' = 0
                   /\ pc' = "join_wait"
                   /\ UNCHANGED <<isConfigMode, wifiStatus, dnsStarted, server>>
              ELSE /\ clock' = ULong(clock + SETUP_DELAY_MS)
                   /\ leds' = AllDark
                   /\ brightness' = loaded.brightness
                   /\ StartConfigMode
                   /\ UNCHANGED <<wifiBegin, attempts>>
  /\ UNCHANGED <<preferences, pendingRestart, restartAt, lastDisplayedSecond,
                 lastManualUpdate, lastWiFiCheck, animPos, animLastUpdate, drawn,
                 ntpTimezone, ntpSynced, mdnsOk, rtc, ntpAttempts, joinCheckRead,
                 submitted, handledAt, restartCause, restartsSinceSave, request,
                 replyText>>

\* one evaluation of the join-wait loop condition, with the delay when it holds
JoinPoll ==
  /\ pc = "join_wait"
  /\ IF JoinMustWait(wifiStatus, attempts)
       THEN /\ clock' = ULong(clock + JOIN_DELAY_MS)
            /\ attempts' = attempts + 1
            /\ pc' = "join_wait"
       ELSE /\ pc' = "join_check"
            /\ UNCHANGED <<clock, attempts>>
  /\ UNCHANGED <<preferences, ramVars, ledVars, netVars, rtc, ntpAttempts,
                 joinCheckRead, ghostVars>>

\* the check after the loop: on success updateWiFiLED(), greenPulseEffect() and
\* startNormalMode() up to its wait loop; otherwise startConfigMode()
JoinCheck ==
  /\ pc = "join_check"
  /\ joinCheckRead' = wifiStatus
  /\ IF JoinSucceeded(wifiStatus)
       THEN /\ wifi_led' = WiFiLedColor(wifiStatus)
            /\ brightness' = PULSE_BRIGHTNESS
            /\ leds' = FillSolid(PulseGreen)
            /\ clock' = ULong(clock + PULSE_MS)
            /\ isConfigMode' = FALSE
            /\ \E ok \in BOOLEAN : mdnsOk' = ok
            /\ ntpTimezone' = settings.timezone
            /\ ntpAttempts' = 0
            /\ pc' = "ntp_wait"
            /\ UNCHANGED <<wifiMode, wifiStatus, dnsStarted, server>>
       ELSE /\ StartConfigMode
            /\ UNCHANGED <<leds, brightness, clock, mdnsOk, ntpTimezone, ntpAttempts>>
  /\ UNCHANGED <<preferences, savedSSID, savedPassword, pendingRestart, restartAt,
                 settings, lastDisplayedSecond, lastManualUpdate, lastWiFiCheck,
                 animPos, animLastUpdate, drawn, wifiBegin, ntpSynced, rtc, attempts,
                 ghostVars>>

\* setupWebServer() is called whether or not the time was obtained
OperatingServerIfSynced(gotTime) == IF gotTime THEN "web" ELSE "none"
OperatingServer(gotTime) == "web"

\* one evaluation of the time-sync loop condition (getLocalTime() succeeds once the
\* clock is synchronized); when it fails the rest of startNormalMode() runs:
\* setupWebServer()
NtpPoll ==
  /\ pc = "ntp_wait"
  /\ IF NtpMustWait(ntpSynced, ntpAttempts)
       THEN /\ clock' = ULong(clock + NTP_DELAY_MS)
            /\ ntpAttempts' = ntpAttempts + 1
            /\ pc' = "ntp_wait"
            /\ UNCHANGED server
       ELSE /\ server' = OperatingServer(ntpSynced)
            /\ pc' = "setup_done"
            /\ UNCHANGED <<clock, ntpAttempts>>
  /\ UNCHANGED <<preferences, ramVars, ledVars, wifiMode, wifiBegin, wifiStatus,
                 dnsStarted, ntpTimezone, ntpSynced, mdnsOk, rtc, attempts,
                 joinCheckRead, ghostVars>>

\* setup() returns and its locals are gone; loop() is called from now on
EnterLoop ==
  /\ pc = "setup_done"
  /\ pc' = "loop"
  /\ attempts' = 0
  /\ ntpAttempts' = 0
  /\ joinCheckRead' = "none"
  /\ mdnsOk' = FALSE
  /\ UNCHANGED <<preferences, ramVars, ledVars, wifiMode, wifiBegin, wifiStatus,
                 dnsStarted, server, ntpTimezone, ntpSynced, rtc, clock, ghostVars>>

(***************************************************************************)
(* loop(): one iteration is LoopService, one request handler (or none) and *)
(* LoopTail, in this order.                                                *)
(***************************************************************************)
\* in Provisioning mode: dnsServer.processNextRequest() and
\* spinningPerimeterEffectNonBlocking()
LoopService ==
  /\ pc = "loop"
  /\ IF isConfigMode /\ ULong(clock - animLastUpdate) >= ANIM_STEP_MS
       THEN /\ animLastUpdate' = clock
            /\ brightness' = SPIN_BRIGHTNESS
            /\ leds' = AnimFrame(animPos)
            /\ animPos' = (animPos + 1) % PerimeterCount
       ELSE UNCHANGED <<animLastUpdate, brightness, leds, animPos>>
  /\ response' = 0
  /\ request' = NothingAsked
  /\ replyText' = NoText
  /\ pc' = "handle"
  /\ UNCHANGED <<preferences, isConfigMode, savedSSID, savedPassword, pendingRestart,
                 restartAt, settings, lastDisplayedSecond, lastManualUpdate,
                 lastWiFiCheck, wifi_led, drawn, netVars, rtc, clock, setupVars, submitted,
                 handledAt, restartCause, restartsSinceSave>>

\* server.handleClient() with no request waiting
NoRequest ==
  /\ pc = "handle"
  /\ pc' = "tail"
  /\ UNCHANGED <<preferences, ramVars, ledVars, netVars, rtc, clock, setupVars,
                 ghostVars>>

\* a request for a page or value that changes nothing: GET / and GET /scan of the
\* setup portal; GET /, /api/settings, /api/time, /api/ip, /api/version of the panel
ServeReadOnly ==
  /\ pc = "handle"
  /\ server \in {"config", "web"}
  /\ response' = 200
  /\ pc' = "tail"
  /\ UNCHANGED <<preferences, ramVars, ledVars, netVars, rtc, clock, setupVars,
                 submitted, handledAt, restartCause, restartsSinceSave, request,
                 replyText>>

\* a request for a route the running server has not registered (POST /save on the
\* panel, POST /api/resetwifi on the setup portal): the portal redirects to itself
ServeNotFound ==
  /\ pc = "handle"
  /\ server \in {"config", "web"}
  /\ response' = IF server = "config" THEN 302 ELSE 404
  /\ pc' = "tail"
  /\ UNCHANGED <<preferences, ramVars, ledVars, netVars, rtc, clock, setupVars,
                 submitted, handledAt, restartCause, restartsSinceSave, request,
                 replyText>>

\* POST /save without a body
SaveNoData ==
  /\ pc = "handle"
  /\ server = "config"
  /\ response' = 400
  /\ pc' = "tail"
  /\ UNCHANGED <<preferences, ramVars, ledVars, netVars, rtc, clock, setupVars,
                 submitted, handledAt, restartCause, restartsSinceSave, request,
                 replyText>>

\* what the /save handler stores for a body
StoreCredentials(p, body) ==
  SaveWiFiCredentials(p, ParseSsid(body), ParsePassword(body))

SaveStoreOnAnyServer(ssid, password) ==
  /\ pc = "handle"
  /\ server /= "none"
  /\ preferences' = StoreCredentials(preferences, SaveBody(ssid, password))
  /\ response' = 200
  /\ submitted' = <<ssid, password>>
  /\ handledAt' = clock
  /\ pc' = "save_arm"
  /\ UNCHANGED <<ramVars, ledVars, netVars, rtc, clock, setupVars, restartCause,
                 restartsSinceSave, request, replyText>>

\* POST /save, first half: parse the body, store the credentials, send the page
SaveStore(ssid, password) ==
  /\ pc = "handle"
  /\ server = "config"
  /\ preferences' = StoreCredentials(preferences, SaveBody(ssid, password))
  /\ response' = 200
  /\ submitted' = <<ssid, password>>
  /\ handledAt' = clock
  /\ pc' = "save_arm"
  /\ UNCHANGED <<ramVars, ledVars, netVars, rtc, clock, setupVars, restartCause,
                 restartsSinceSave, request, replyText>>

\* restartAt = millis() + 8000
RestartTime(now) == ULong(now + RESTART_DELAY_MS)

\* POST /save, second half: flush, delay(100), arm the restart
SaveArm ==
  /\ pc = "save_arm"
  /\ clock' = ULong(clock + SAVE_FLUSH_DELAY_MS)
  /\ pendingRestart' = TRUE
  /\ restartAt' = RestartTime(clock')
  /\ restartsSinceSave' = 0
  /\ pc' = "tail"
  /\ UNCHANGED <<preferences, isConfigMode, savedSSID, savedPassword, settings,
                 lastDisplayedSecond, lastManualUpdate, lastWiFiCheck, animPos,
                 animLastUpdate, ledVars, netVars, rtc, setupVars, response,
                 submitted, handledAt, restartCause, request, replyText>>

\* POST /api/resetwifi: erase the credentials, acknowledge, delay(1000), restart
ResetWifiIntoPortal ==
  /\ pc = "handle"
  /\ server = "web"
  /\ preferences' = RemoveCredentials(preferences)
  /\ response' = 200
  /\ submitted' = NoSubmission
  /\ isConfigMode' = TRUE
  /\ wifiMode' = "WIFI_AP"
  /\ wifiStatus' = "WL_DISCONNECTED"
  /\ dnsStarted' = TRUE
  /\ server' = "config"
  /\ pc' = "tail"
  /\ UNCHANGED <<savedSSID, savedPassword, pendingRestart, restartAt, settings,
                 lastDisplayedSecond, lastManualUpdate, lastWiFiCheck, animPos,
                 animLastUpdate, ledVars, wifiBegin, ntpTimezone, ntpSynced, mdnsOk,
                 rtc, clock, setupVars, handledAt, restartCause, restartsSinceSave,
                 request, replyText>>

ResetWifi ==
  /\ pc = "handle"
  /\ server = "web"
  /\ preferences' = RemoveCredentials(preferences)
  /\ response' = 200
  /\ submitted' = NoSubmission
  /\ Restart("factory")
  /\ UNCHANGED <<rtc, restartsSinceSave>>

(***************************************************************************)
(* The panel's API (setupWebServer): POST /api/settings,                   *)
(* POST /api/manualtime, GET /api/time.                                    *)
(***************************************************************************)
\* the text the handler takes for a field that may be sent quoted ("key":"text") or
\* bare ("key":text); quotedSkip and bareSkip are the lengths the handler adds
ValueText(body, key, quotedSkip, bareSkip) ==
  LET start == IndexOf(body, key \o Quote \o Colon \o Quote, 0) + quotedSkip
      end == IndexOf(body, Quote, start)
      bareStart == IndexOf(body, key \o Quote \o Colon, 0) + bareSkip
      comma == IndexOf(body, Comma, bareStart)
      bareEnd == IF comma = -1 THEN IndexOf(body, CloseBrace, bareStart) ELSE comma
  IN  IF end = -1 THEN Substring(body, bareStart, bareEnd)
      ELSE Substring(body, start, end)

\* the text the handler takes for a field sent quoted
QuotedText(body, key, skip) ==
  LET start == IndexOf(body, key \o Quote \o Colon \o Quote, 0) + skip
      end == IndexOf(body, Quote, start)
  IN  Substring(body, start, end)

MentionsAlways(body, key) == TRUE
Mentions(body, key) == IndexOf(body, key, 0) > -1

\* if (end > start) of the timezone field
TimezoneAccepted(body) ==
  LET start == IndexOf(body, KeyTimezone \o Quote \o Colon \o Quote, 0) + 11
      end == IndexOf(body, Quote, start)
  IN  Mentions(body, KeyTimezone) /\ end > start

\* if (brightnessValue >= 1 && brightnessValue <= 255)
BrightnessInRangeAlways(value) == TRUE
BrightnessInRange(value) == value >= 1 /\ value <= 255

BrightnessAcceptedIfMentioned(body) == Mentions(body, KeyBrightness)
BrightnessAccepted(body) ==
  /\ Mentions(body, KeyBrightness)
  /\ BrightnessInRange(ToInt(ValueText(body, KeyBrightness, 13, 12)))

\* modeStr == "true"
TrueText == <<"t", "r", "u", "e">>
FalseText == <<"f", "a", "l", "s", "e">>

ManualModeText(body) ==
  LET start == IndexOf(body, KeyManualMode \o Quote \o Colon, 0) + 12
      comma == IndexOf(body, Comma, start)
      end == IF comma = -1 THEN IndexOf(body, CloseBrace, start) ELSE comma
  IN  Substring(body, start, end)

\* the settings after the handler of POST /api/settings has gone through the body
SettingsUpdate(s, body) ==
  [timezone |-> IF TimezoneAccepted(body)
                  THEN QuotedText(body, KeyTimezone, 11) ELSE s.timezone,
   use24Hour |-> IF Mentions(body, KeyTimeFormat)
                   THEN ToInt(ValueText(body, KeyTimeFormat, 13, 12)) = 1
                   ELSE s.use24Hour,
   brightness |-> IF BrightnessAccepted(body)
                    THEN UInt8(ToInt(ValueText(body, KeyBrightness, 13, 12)))
                    ELSE s.brightness,
   manualMode |-> IF Mentions(body, KeyManualMode)
                    THEN ManualModeText(body) = TrueText ELSE s.manualMode,
   hourColor |-> IF Mentions(body, KeyHourColor)
                   THEN HexToRGB(QuotedText(body, KeyHourColor, 12)) ELSE s.hourColor,
   minuteColor |-> IF Mentions(body, KeyMinuteColor)
                     THEN HexToRGB(QuotedText(body, KeyMinuteColor, 14))
                     ELSE s.minuteColor,
   secondColor |-> IF Mentions(body, KeySecondColor)
                     THEN HexToRGB(QuotedText(body, KeySecondColor, 14))
                     ELSE s.secondColor,
   manualHour |-> s.manualHour,
   manualMinute |-> s.manualMinute,
   manualSecond |-> s.manualSecond]

\* saveSettings()
SaveSettingsWithoutSecond(p, s) ==
  LET p1 == PrefPut(p, "timezone", s.timezone)
      p2 == PrefPut(p1, "brightness", s.brightness)
      p3 == PrefPut(p2, "use24Hour", s.use24Hour)
      p4 == PrefPut(p3, "manualMode", s.manualMode)
      p5 == PrefPut(p4, "manualHour", s.manualHour)
      p6 == PrefPut(p5, "manualMinute", s.manualMinute)
      p8 == PrefPut(p6, "hourColor", CodeOfColor(s.hourColor))
      p9 == PrefPut(p8, "minuteColor", CodeOfColor(s.minuteColor))
  IN  PrefPut(p9, "secondColor", CodeOfColor(s.secondColor))

SaveSettings(p, s) ==
  LET p1 == PrefPut(p, "timezone", s.timezone)
      p2 == PrefPut(p1, "brightness", s.brightness)
      p3 == PrefPut(p2, "use24Hour", s.use24Hour)
      p4 == PrefPut(p3, "manualMode", s.manualMode)
      p5 == PrefPut(p4, "manualHour", s.manualHour)
      p6 == PrefPut(p5, "manualMinute", s.manualMinute)
      p7 == PrefPut(p6, "manualSecond", s.manualSecond)
      p8 == PrefPut(p7, "hourColor", CodeOfColor(s.hourColor))
      p9 == PrefPut(p8, "minuteColor", CodeOfColor(s.minuteColor))
  IN  PrefPut(p9, "secondColor", CodeOfColor(s.secondColor))

\* POST /api/settings with a body
SettingsPost(fields) ==
  /\ pc = "handle"
  /\ server = "web"
  /\ LET body == JsonBody(fields)
         updated == SettingsUpdate(settings, body)
     IN  /\ settings' = updated
         /\ ntpTimezone' = IF TimezoneAccepted(body) THEN updated.timezone
                           ELSE ntpTimezone
         /\ brightness' = IF BrightnessAccepted(body) THEN updated.brightness
                          ELSE brightness
         /\ preferences' = SaveSettings(preferences, updated)
  /\ response' = 200
  /\ request' = [route |-> "settings", fields |-> fields]
  /\ pc' = "tail"
  /\ UNCHANGED <<isConfigMode, savedSSID, savedPassword, pendingRestart, restartAt,
                 lastDisplayedSecond, lastManualUpdate, lastWiFiCheck, animPos,
                 animLastUpdate, leds, wifi_led, drawn, wifiMode, wifiBegin, wifiStatus,
                 dnsStarted, server, ntpSynced, mdnsOk, rtc, clock, setupVars,
                 submitted, handledAt, restartCause, restartsSinceSave, replyText>>

\* POST /api/settings or POST /api/manualtime without a body
PanelNoData ==
  /\ pc = "handle"
  /\ server = "web"
  /\ response' = 400
  /\ pc' = "tail"
  /\ UNCHANGED <<preferences, ramVars, ledVars, netVars, rtc, clock, setupVars,
                 submitted, handledAt, restartCause, restartsSinceSave, request,
                 replyText>>

\* the lambda extractNumber of the /api/manualtime handler
ExtractNumber(body, key) ==
  LET keyPos == IndexOf(body, key, 0)
      colonPos == IndexOf(body, Colon, keyPos)
      comma == IndexOf(body, Comma, colonPos)
      endPos == IF comma = -1 THEN IndexOf(body, CloseBrace, colonPos) ELSE comma
      clean == OnlyDigits(Trim(Substring(body, colonPos + 1, endPos)))
  IN  IF keyPos = -1 \/ colonPos = -1 THEN -1
      ELSE IF Len(clean) > 0 THEN ToInt(clean)
      ELSE -1

\* if (h >= 0) settings.manualHour = h, and the same for minute and second
ManualTimeUpdateInManualMode(s, body) ==
  LET h == ExtractNumber(body, KeyManualHour)
      m == ExtractNumber(body, KeyManualMinute)
      sec == ExtractNumber(body, KeyManualSecond)
  IN  IF s.manualMode
        THEN [s EXCEPT !.manualHour = IF h >= 0 THEN UInt8(h) ELSE @,
                       !.manualMinute = IF m >= 0 THEN UInt8(m) ELSE @,
                       !.manualSecond = IF sec >= 0 THEN UInt8(sec) ELSE @]
        ELSE s

ManualTimeUpdate(s, body) ==
  LET h == ExtractNumber(body, KeyManualHour)
      m == ExtractNumber(body, KeyManualMinute)
      sec == ExtractNumber(body, KeyManualSecond)
  IN  [s EXCEPT !.manualHour = IF h >= 0 THEN UInt8(h) ELSE @,
                !.manualMinute = IF m >= 0 THEN UInt8(m) ELSE @,
                !.manualSecond = IF sec >= 0 THEN UInt8(sec) ELSE @]

\* lastManualUpdate = millis() - 1000
ManualTimerAfterOverwrite(now) == ULong(now - MANUAL_TIMER_REWIND_MS)

\* POST /api/manualtime with a body
ManualTimePost(fields) ==
  /\ pc = "handle"
  /\ server = "web"
  /\ LET updated == ManualTimeUpdate(settings, JsonBody(fields))
     IN  /\ settings' = updated
         /\ preferences' = SaveSettings(preferences, updated)
  /\ response' = 200
  /\ lastManualUpdate' = ManualTimerAfterOverwrite(clock)
  /\ request' = [route |-> "manualtime", fields |-> fields]
  /\ pc' = "tail"
  /\ UNCHANGED <<isConfigMode, savedSSID, savedPassword, pendingRestart, restartAt,
                 lastDisplayedSecond, lastWiFiCheck, animPos, animLastUpdate,
                 ledVars, netVars, rtc, clock, setupVars, submitted, handledAt,
                 restartCause, restartsSinceSave, replyText>>

\* sprintf("%02d")
TwoDigits(n) ==
  IF n < 10 THEN <<"0", Digits[n + 1]>>
  ELSE IF n < 100 THEN <<Digits[(n \div 10) + 1], Digits[(n % 10) + 1]>>
  ELSE <<Digits[(n \div 100) + 1], Digits[((n \div 10) % 10) + 1], Digits[(n % 10) + 1]>>

TextAM == <<" ", "A", "M">>
TextPM == <<" ", "P", "M">>
TimeNotAvailable == 
  <<"T", "i", "m", "e", " ", "n", "o", "t", " ", "a", "v", "a", "i", "l", "a", "b", "l", "e">>

ClockText(hour, minute, second) ==
  TwoDigits(hour) \o Colon \o TwoDigits(minute) \o Colon \o TwoDigits(second)

\* the hour the manual branch of GET /api/time prints in 12-hour format
TimeTextHourNoMidnight(hour) == IF hour > 12 THEN UInt8(hour - 12) ELSE hour

TimeTextHour(hour) ==
  LET displayHour == IF hour > 12 THEN UInt8(hour - 12) ELSE hour
  IN  IF displayHour = 0 THEN 12 ELSE displayHour

TimeTextIgnoringSync(s, gotTime, now) ==
  IF s.manualMode
    THEN IF s.use24Hour
           THEN ClockText(s.manualHour, s.manualMinute, s.manualSecond)
           ELSE ClockText(TimeTextHour(s.manualHour), s.manualMinute, s.manualSecond)
                \o (IF s.manualHour >= 12 THEN TextPM ELSE TextAM)
    ELSE LET timeinfo == LocalTime(now)
         IN  IF s.use24Hour
               THEN ClockText(timeinfo.tm_hour, timeinfo.tm_min, timeinfo.tm_sec)
               ELSE ClockText(IF timeinfo.tm_hour % 12 = 0 THEN 12
                              ELSE timeinfo.tm_hour % 12,
                              timeinfo.tm_min, timeinfo.tm_sec)
                    \o (IF timeinfo.tm_hour >= 12 THEN TextPM ELSE TextAM)

\* the text GET /api/time answers with
TimeText(s, gotTime, now) ==
  IF s.manualMode
    THEN IF s.use24Hour
           THEN ClockText(s.manualHour, s.manualMinute, s.manualSecond)
           ELSE ClockText(TimeTextHour(s.manualHour), s.manualMinute, s.manualSecond)
                \o (IF s.manualHour >= 12 THEN TextPM ELSE TextAM)
    ELSE IF gotTime
           THEN LET timeinfo == LocalTime(now)
                IN  IF s.use24Hour
                      THEN ClockText(timeinfo.tm_hour, timeinfo.tm_min, timeinfo.tm_sec)
                      ELSE ClockText(IF timeinfo.tm_hour % 12 = 0 THEN 12
                                     ELSE timeinfo.tm_hour % 12,
                                     timeinfo.tm_min, timeinfo.tm_sec)
                           \o (IF timeinfo.tm_hour >= 12 THEN TextPM ELSE TextAM)
           ELSE TimeNotAvailable

\* GET /api/time
TimeGet ==
  /\ pc = "handle"
  /\ server = "web"
  /\ replyText' = TimeText(settings, ntpSynced, rtc)
  /\ response' = 200
  /\ request' = [route |-> "time"]
  /\ pc' = "tail"
  /\ UNCHANGED <<preferences, ramVars, ledVars, netVars, rtc, clock, setupVars,
                 submitted, handledAt, restartCause, restartsSinceSave>>

\* the manual clock one second on (uint8_t fields)
TickManual(s) ==
  LET sec == (s.manualSecond + 1) % 256
      min == IF sec >= 60 THEN (s.manualMinute + 1) % 256 ELSE s.manualMinute
      hr == IF sec >= 60 /\ min >= 60 THEN (s.manualHour + 1) % 256 ELSE s.manualHour
  IN  [s EXCEPT !.manualSecond = IF sec >= 60 THEN 0 ELSE sec,
                !.manualMinute = IF sec >= 60 /\ min >= 60 THEN 0 ELSE min,
                !.manualHour = IF sec >= 60 /\ min >= 60 /\ hr >= 24 THEN 0 ELSE hr]

\* bool isPM = (hour >= 12)
IsPM(hour) == hour >= 12

\* a call drawClock(hour, minute, second, isPM) with the settings s in force
DrawCall(hour, minute, second, isPM, s) ==
  /\ leds' = DrawClock(hour, minute, second, isPM, s)
  /\ drawn' = [hour |-> hour, minute |-> minute, second |-> second, isPM |-> isPM]

LoopDisplayAnyMode ==
  IF settings.manualMode
    THEN IF ULong(clock - lastManualUpdate) >= MANUAL_TICK_MS
           THEN LET t == TickManual(settings)
                IN  /\ lastManualUpdate' = clock
                    /\ settings' = t
                    /\ DrawCall(DisplayHour(t.manualHour, t.use24Hour),
                                t.manualMinute, t.manualSecond,
                                IsPM(t.manualHour), t)
                    /\ UNCHANGED lastDisplayedSecond
           ELSE UNCHANGED <<settings, lastManualUpdate, lastDisplayedSecond, leds,
                            drawn>>
    ELSE IF rtc /= lastDisplayedSecond
           THEN LET localTime == LocalTime(rtc)
                IN  /\ lastDisplayedSecond' = rtc
                    /\ DrawCall(DisplayHour(localTime.tm_hour, settings.use24Hour),
                                localTime.tm_min, localTime.tm_sec,
                                IsPM(localTime.tm_hour), settings)
                    /\ UNCHANGED <<settings, lastManualUpdate>>
           ELSE UNCHANGED <<settings, lastManualUpdate, lastDisplayedSecond, leds,
                            drawn>>

LoopDisplayManualUntilSynced ==
  IF isConfigMode
    THEN UNCHANGED <<settings, lastManualUpdate, lastDisplayedSecond, leds, drawn>>
    ELSE IF settings.manualMode \/ ~ntpSynced
      THEN IF ULong(clock - lastManualUpdate) >= MANUAL_TICK_MS
             THEN LET t == TickManual(settings)
                  IN  /\ lastManualUpdate' = clock
                      /\ settings' = t
                      /\ DrawCall(DisplayHour(t.manualHour, t.use24Hour),
                                  t.manualMinute, t.manualSecond,
                                  IsPM(t.manualHour), t)
                      /\ UNCHANGED lastDisplayedSecond
             ELSE UNCHANGED <<settings, lastManualUpdate, lastDisplayedSecond, leds,
                              drawn>>
      ELSE IF rtc /= lastDisplayedSecond
             THEN LET localTime == LocalTime(rtc)
                  IN  /\ lastDisplayedSecond' = rtc
                      /\ DrawCall(DisplayHour(localTime.tm_hour, settings.use24Hour),
                                  localTime.tm_min, localTime.tm_sec,
                                  IsPM(localTime.tm_hour), settings)
                      /\ UNCHANGED <<settings, lastManualUpdate>>
             ELSE UNCHANGED <<settings, lastManualUpdate, lastDisplayedSecond, leds,
                              drawn>>

LoopDisplayEveryIteration ==
  IF isConfigMode
    THEN UNCHANGED <<settings, lastManualUpdate, lastDisplayedSecond, leds, drawn>>
    ELSE IF settings.manualMode
      THEN IF ULong(clock - lastManualUpdate) >= MANUAL_TICK_MS
             THEN LET t == TickManual(settings)
                  IN  /\ lastManualUpdate' = clock
                      /\ settings' = t
                      /\ DrawCall(DisplayHour(t.manualHour, t.use24Hour),
                                  t.manualMinute, t.manualSecond,
                                  IsPM(t.manualHour), t)
                      /\ UNCHANGED lastDisplayedSecond
             ELSE UNCHANGED <<settings, lastManualUpdate, lastDisplayedSecond, leds,
                              drawn>>
      ELSE LET localTime == LocalTime(rtc)
           IN  /\ lastDisplayedSecond' = rtc
               /\ DrawCall(DisplayHour(localTime.tm_hour, settings.use24Hour),
                           localTime.tm_min, localTime.tm_sec,
                           IsPM(localTime.tm_hour), settings)
               /\ UNCHANGED <<settings, lastManualUpdate>>

\* the time-driven redraw, only outside Provisioning mode
LoopDisplay ==
  IF isConfigMode
    THEN UNCHANGED <<settings, lastManualUpdate, lastDisplayedSecond, leds, drawn>>
    ELSE IF settings.manualMode
      THEN IF ULong(clock - lastManualUpdate) >= MANUAL_TICK_MS
             THEN LET t == TickManual(settings)
                  IN  /\ lastManualUpdate' = clock
                      /\ settings' = t
                      /\ DrawCall(DisplayHour(t.manualHour, t.use24Hour),
                                  t.manualMinute, t.manualSecond,
                                  IsPM(t.manualHour), t)
                      /\ UNCHANGED lastDisplayedSecond
             ELSE UNCHANGED <<settings, lastManualUpdate, lastDisplayedSecond, leds,
                              drawn>>
      ELSE IF rtc /= lastDisplayedSecond
             THEN LET localTime == LocalTime(rtc)
                  IN  /\ lastDisplayedSecond' = rtc
                      /\ DrawCall(DisplayHour(localTime.tm_hour, settings.use24Hour),
                                  localTime.tm_min, localTime.tm_sec,
                                  IsPM(localTime.tm_hour), settings)
                      /\ UNCHANGED <<settings, lastManualUpdate>>
             ELSE UNCHANGED <<settings, lastManualUpdate, lastDisplayedSecond, leds,
                              drawn>>

\* the periodic refresh of the status LED
LoopWifiCheck ==
  IF ULong(clock - lastWiFiCheck) > WIFI_CHECK_MS
    THEN /\ lastWiFiCheck' = clock
         /\ wifi_led' = WiFiLedColor(wifiStatus)
    ELSE UNCHANGED <<lastWiFiCheck, wifi_led>>

\* pendingRestart && millis() >= restartAt
RestartDueUnarmed(armed, now, at) == now >= at
RestartDue(armed, now, at) == armed /\ now >= at

\* the rest of the iteration after handleClient(): redraw, status LED, then the
\* deferred restart when it is due (which discards what the iteration did to the
\* globals), or else the delay that ends the iteration
LoopTailWithin(durations, limit) ==
  /\ pc = "tail"
  /\ IF RestartDue(pendingRestart, clock, restartAt)
       THEN /\ Restart("deferred")
            /\ restartsSinceSave' = restartsSinceSave + 1
            /\ UNCHANGED <<preferences, rtc, response, submitted>>
       ELSE /\ LoopDisplay
            /\ LoopWifiCheck
            /\ \E d \in durations :
                 /\ d >= LOOP_DELAY_MS
                 /\ clock + d <= limit
                 /\ clock' = ULong(clock + d)
            /\ pc' = "loop"
            /\ UNCHANGED <<preferences, isConfigMode, savedSSID, savedPassword,
                           pendingRestart, restartAt, animPos, animLastUpdate,
                           brightness, netVars, rtc, setupVars, ghostVars>>

LoopTail == LoopTailWithin(Durations, MaxUptime)

(***************************************************************************)
(* The environment: the access point comes and goes, the time service      *)
(* answers, the system clock moves.  The program observes them between the *)
(* steps of setup() and at the start of a loop() iteration.                *)
(***************************************************************************)
NetChange ==
  /\ pc \in {"join_wait", "join_check", "ntp_wait", "loop"}
  /\ wifiMode = "WIFI_STA"
  /\ wifiStatus' = IF wifiStatus = "WL_CONNECTED" THEN "WL_DISCONNECTED"
                   ELSE "WL_CONNECTED"
  /\ UNCHANGED <<preferences, ramVars, ledVars, wifiMode, wifiBegin, dnsStarted,
                 server, ntpTimezone, ntpSynced, mdnsOk, rtc, clock, pc, setupVars,
                 ghostVars>>

\* the time requested by configTzTime() arrives
NtpSync ==
  /\ pc \in {"ntp_wait", "loop"}
  /\ ntpTimezone /= NoTimezone
  /\ wifiStatus = "WL_CONNECTED"
  /\ ~ntpSynced
  /\ ntpSynced' = TRUE
  /\ UNCHANGED <<preferences, ramVars, ledVars, wifiMode, wifiBegin, wifiStatus,
                 dnsStarted, server, ntpTimezone, mdnsOk, rtc, clock, pc, setupVars,
                 ghostVars>>

RtcChange ==
  /\ pc = "loop"
  /\ ~isConfigMode
  /\ \E t \in RtcValues \ {rtc} : rtc' = t
  /\ UNCHANGED <<preferences, ramVars, ledVars, netVars, clock, pc, setupVars,
                 ghostVars>>

\* in the life-cycle specification the network and the time service change state
\* only before the first poll of a wait loop, right before the check that follows
\* the join wait, and while loop() runs
Sparse ==
  /\ pc = "join_wait" => attempts = 0
  /\ pc = "ntp_wait" => ntpAttempts = 0

SetupStep == SetupBegin \/ JoinPoll \/ JoinCheck \/ NtpPoll \/ EnterLoop

Next ==
  \/ SetupBegin
  \/ JoinPoll
  \/ JoinCheck
  \/ NtpPoll
  \/ EnterLoop
  \/ LoopService
  \/ NoRequest
  \/ ServeReadOnly
  \/ ServeNotFound
  \/ SaveNoData
  \/ \E ssid \in SsidInputs, password \in PasswordInputs : SaveStore(ssid, password)
  \/ SaveArm
  \/ ResetWifi
  \/ LoopTail
  \/ (Sparse /\ NetChange)
  \/ (Sparse /\ NtpSync)
  \/ RtcChange

Spec == Init /\ [][Next]_vars

\* loop() keeps running and time keeps advancing: whenever a step of loop() can be
\* taken, one is taken
LoopRuns ==
  \/ LoopService
  \/ NoRequest
  \/ ServeReadOnly
  \/ ServeNotFound
  \/ SaveNoData
  \/ \E ssid \in SsidInputs, password \in PasswordInputs : SaveStore(ssid, password)
  \/ SaveArm
  \/ ResetWifi
  \/ LoopTail

FairLoop == Spec /\ WF_vars(LoopRuns)

(***************************************************************************)
(* Boot alone: a device with any credentials the setup portal can have     *)
(* stored is powered on, and the network and the time service behave in    *)
(* any way at all while setup() runs.                                      *)
(***************************************************************************)
StoredCredentials ==
  {NoPreferences} \cup
  { StoreCredentials(NoPreferences, SaveBody(ssid, password)) :
      ssid \in SsidInputs, password \in PasswordInputs }

InitBoot ==
  /\ PowerOn
  /\ preferences \in StoredCredentials
  /\ rtc \in RtcValues
  /\ response = 0
  /\ submitted = NoSubmission
  /\ handledAt = 0
  /\ restartCause = "power"
  /\ restartsSinceSave = 0
  /\ request = NothingAsked
  /\ replyText = NoText

NextBoot ==
  \/ SetupBegin
  \/ JoinPoll
  \/ JoinCheck
  \/ NtpPoll
  \/ EnterLoop
  \/ (pc /= "loop" /\ NetChange)
  \/ (pc /= "loop" /\ NtpSync)

SpecBoot == InitBoot /\ [][NextBoot]_vars

\* the processor keeps executing setup()
FairBoot == SpecBoot /\ WF_vars(SetupStep)

(***************************************************************************)
(* The device in Operating mode as setup() hands it to loop(): it joined   *)
(* the network after waiting `waited` ms for it and had the time at the    *)
(* first poll; p is what the persistent store held at power-on.            *)
(***************************************************************************)
OperatingAtLoopEntry(p, waited) ==
  /\ preferences = p
  /\ isConfigMode = FALSE
  /\ savedSSID = PrefGet(p, "wifiSSID", <<>>)
  /\ savedPassword = PrefGet(p, "wifiPass", <<>>)
  /\ pendingRestart = InitialPendingRestart
  /\ restartAt = 0
  /\ settings = LoadSettings(p)
  /\ lastDisplayedSecond = -1
  /\ lastManualUpdate = 0
  /\ lastWiFiCheck = 0
  /\ animPos = 0
  /\ animLastUpdate = 0
  /\ leds = FillSolid(PulseGreen)
  /\ drawn = NotDrawn
  /\ wifi_led = Green
  /\ brightness = PULSE_BRIGHTNESS
  /\ wifiMode = "WIFI_STA"
  /\ wifiBegin = <<savedSSID, savedPassword>>
  /\ wifiStatus = "WL_CONNECTED"
  /\ dnsStarted = FALSE
  /\ server = "web"
  /\ ntpTimezone = settings.timezone
  /\ ntpSynced = TRUE
  /\ mdnsOk = FALSE
  /\ clock = SETUP_DELAY_MS + SPIN_MS + waited + PULSE_MS
  /\ pc = "loop"
  /\ attempts = 0
  /\ ntpAttempts = 0
  /\ joinCheckRead = "none"
  /\ response = 0
  /\ submitted = NoSubmission
  /\ handledAt = 0
  /\ restartCause = "power"
  /\ restartsSinceSave = 0
  /\ request = NothingAsked
  /\ replyText = NoText

\* the store of a device that was given credentials and then the settings s
PanelPreferences(s) ==
  SaveSettings(StoreCredentials(NoPreferences, SaveBody(<<"A">>, <<"p">>)), s)

(***************************************************************************)
(* The display alone: a device in Operating mode shows the time, from the  *)
(* system clock or from the manual clock, for a few iterations of loop().  *)
(***************************************************************************)
\* every second of the day with the settings as declared, on a device that had to
\* wait for the network and is followed for one iteration less; and every hour at
\* the turn of a minute and of the hour in both hour formats and both time sources
DisplayInputs ==
  { [time |-> t, use24Hour |-> TRUE, manualMode |-> FALSE,
     waited |-> (DisplayIterations - 1) * ManualTick] : t \in 0 .. (DaySeconds - 1) }
  \cup
  { [time |-> (h * 60 + m) * 60 + sec, use24Hour |-> u, manualMode |-> mm,
     waited |-> 0] :
      h \in 0 .. 23, m \in {0, 59}, sec \in {0, 59}, u \in BOOLEAN, mm \in BOOLEAN }

InitDisplay ==
  \E in \in DisplayInputs :
    /\ rtc = in.time
    /\ OperatingAtLoopEntry(
         PanelPreferences([ClockSettings EXCEPT
                             !.use24Hour = in.use24Hour,
                             !.manualMode = in.manualMode,
                             !.manualHour = LocalTime(in.time).tm_hour,
                             !.manualMinute = LocalTime(in.time).tm_min,
                             !.manualSecond = LocalTime(in.time).tm_sec]),
         in.waited)

DisplayUptime == SETUP_DELAY_MS + SPIN_MS + PULSE_MS + DisplayIterations * ManualTick

NextDisplay ==
  \/ (clock + ManualTick <= DisplayUptime /\ LoopService)
  \/ NoRequest
  \/ (settings.manualMode /\ TimeGet)
  \/ LoopTailWithin({ManualTick}, DisplayUptime)
  \/ (lastDisplayedSecond = rtc /\ RtcChange)

SpecDisplay == InitDisplay /\ [][NextDisplay]_vars

(***************************************************************************)
(* The manual clock: a device in Operating mode with manualMode stored on  *)
(* runs loop() while the panel sets the manual time and switches the time  *)
(* source.                                                                 *)
(***************************************************************************)
\* absent, or the field with one of the values
OptionalField(key, values) ==
  {<<>>} \cup { <<BareField(key, v)>> : v \in values }

\* the bodies setManualTime() of the page can send, and those an API client can
\* send by leaving fields out or sending numbers the page would refuse
ManualTimeRequests ==
  { h \o m \o sec :
      h \in OptionalField(KeyManualHour, ManualHourInputs),
      m \in OptionalField(KeyManualMinute, ManualMinuteInputs),
      sec \in OptionalField(KeyManualSecond, ManualSecondInputs) }

\* rgbToHex(color): what the page's colour inputs hold after loadSettings()
HexPair(n) ==
  << (Digits \o HexLetters)[(n \div 16) + 1], (Digits \o HexLetters)[(n % 16) + 1] >>

RgbToHex(c) == <<"#">> \o HexPair(c[1]) \o HexPair(c[2]) \o HexPair(c[3])

\* String(n) of a number below 1000
NumberText(n) ==
  IF n < 10 THEN <<Digits[n + 1]>>
  ELSE IF n < 100 THEN <<Digits[(n \div 10) + 1], Digits[(n % 10) + 1]>>
  ELSE <<Digits[(n \div 100) + 1], Digits[((n \div 10) % 10) + 1], Digits[(n % 10) + 1]>>

\* the body saveSettings() of the page sends when its form shows the settings s and
\* the manual-mode box is set to manual
PageSettingsRequest(s, manual) ==
  << StringField(KeyTimezone, s.timezone),
     StringField(KeyTimeFormat, IF s.use24Hour THEN <<"1">> ELSE <<"0">>),
     StringField(KeyBrightness, NumberText(s.brightness)),
     StringField(KeyHourColor, RgbToHex(s.hourColor)),
     StringField(KeyMinuteColor, RgbToHex(s.minuteColor)),
     StringField(KeySecondColor, RgbToHex(s.secondColor)),
     BareField(KeyManualMode, IF manual THEN TrueText ELSE FalseText) >>
  \o (IF manual
        THEN << BareField(KeyManualHour, NumberText(s.manualHour)),
                BareField(KeyManualMinute, NumberText(s.manualMinute)),
                BareField(KeyManualSecond, NumberText(s.manualSecond)) >>
        ELSE <<>>)

\* the check saveSettings() of the page makes before it sends the manual time
PageAccepts(s, manual) ==
  manual => /\ s.manualHour \in 0 .. 23
            /\ s.manualMinute \in 0 .. 59
            /\ s.manualSecond \in 0 .. 59

InitManual ==
  \E start \in ManualStarts, t \in RtcValues :
    /\ rtc = t
    /\ OperatingAtLoopEntry(
         PanelPreferences([ClockSettings EXCEPT !.manualMode = TRUE,
                                                !.manualHour = start[1],
                                                !.manualMinute = start[2],
                                                !.manualSecond = start[3]]),
         0)

ManualUptime == SETUP_DELAY_MS + SPIN_MS + PULSE_MS + ManualUptimeMs

NextManual ==
  \/ (clock < ManualUptime /\ LoopService)
  \/ NoRequest
  \/ PanelNoData
  \/ TimeGet
  \/ \E fields \in ManualTimeRequests : ManualTimePost(fields)
  \/ \E manual \in BOOLEAN :
       PageAccepts(settings, manual) /\ SettingsPost(PageSettingsRequest(settings, manual))
  \/ LoopTailWithin(ManualDurations, ManualUptime)

SpecManual == InitManual /\ [][NextManual]_vars

(***************************************************************************)
(* The settings: a device in Operating mode takes settings updates and     *)
(* manual-time overwrites from the panel and from other API clients, and   *)
(* is switched off and on again once.                                      *)
(***************************************************************************)
SettingsIterations == 1

\* "UTC0"
OtherTimezone == <<"U", "T", "C", "0">>

HexRed == <<"#", "f", "f", "0", "0", "0", "0">>
HexGreen == <<"#", "0", "0", "f", "f", "0", "0">>
HexYellow == <<"#", "F", "F", "f", "f", "0", "0">>

\* for each field of a settings update the values a client may send for it: values
\* the page sends, and values it would not send
TimezoneOptions ==
  { StringField(KeyTimezone, v) : v \in {OtherTimezone, <<>>, KeyTimeFormat} }
TimeFormatOptions == { StringField(KeyTimeFormat, v) : v \in {<<"1">>, <<"x">>} }
BrightnessOptions ==
  { StringField(KeyBrightness, v) :
      v \in {<<"2", "0", "0">>, <<"0">>, <<"3", "0", "0">>, <<"a", "b", "c">>,
             <<"-", "5">>} }
ManualModeOptions == { BareField(KeyManualMode, v) : v \in {TrueText, <<"o", "n">>} }
HourColorOptions == { StringField(KeyHourColor, v) : v \in {HexRed, <<"r", "e", "d">>} }
MinuteColorOptions == { StringField(KeyMinuteColor, v) : v \in {HexGreen, <<>>} }
SecondColorOptions ==
  { StringField(KeySecondColor, v) : v \in {HexYellow, <<"#", "z", "z">>} }

\* the fields the page puts before and after hourColor
BeforeHourColor == TimezoneOptions \cup TimeFormatOptions \cup BrightnessOptions
AfterHourColor == MinuteColorOptions \cup SecondColorOptions \cup ManualModeOptions

\* the updates with no field, with one field, and with hourColor and one other
\* field, in the order the page sends them
SettingsRequests ==
  {<<>>}
  \cup { <<f>> : f \in BeforeHourColor \cup HourColorOptions \cup AfterHourColor }
  \cup { <<f, g>> : f \in BeforeHourColor, g \in HourColorOptions }
  \cup { <<g, f>> : g \in HourColorOptions, f \in AfterHourColor }

\* the overwrites that name one component
OneComponentRequests == { r \in ManualTimeRequests : Len(r) = 1 }

\* what the store holds at power-on: the credentials alone (first boot of the
\* panel), or settings an earlier session saved
SettingsStores ==
  { StoreCredentials(NoPreferences, SaveBody(<<"A">>, <<"p">>)),
    PanelPreferences([ClockSettings EXCEPT !.brightness = 255,
                                           !.use24Hour = FALSE,
                                           !.manualMode = TRUE]) }

InitSettings ==
  \E p \in SettingsStores :
    /\ rtc = 0
    /\ OperatingAtLoopEntry(p, 0)

SettingsUptime == SETUP_DELAY_MS + SPIN_MS + PULSE_MS + SettingsIterations * LOOP_DELAY_MS

\* the device is switched off and on, once
PowerCycle ==
  /\ pc = "loop"
  /\ restartCause = "power"
  /\ Restart("cycle")
  /\ UNCHANGED <<preferences, rtc, response, submitted, restartsSinceSave>>

\* setup() after the power cycle runs as in SpecBoot, with the network and the time
\* service answering before the first poll or not at all
NextSettings ==
  \/ (clock < SettingsUptime /\ LoopService)
  \/ NoRequest
  \/ \E fields \in SettingsRequests : SettingsPost(fields)
  \/ \E fields \in OneComponentRequests : ManualTimePost(fields)
  \/ LoopTailWithin({LOOP_DELAY_MS}, SettingsUptime)
  \/ PowerCycle
  \/ SetupBegin
  \/ JoinPoll
  \/ JoinCheck
  \/ NtpPoll
  \/ EnterLoop
  \/ (pc = "join_wait" /\ attempts = 0 /\ NetChange)
  \/ (pc = "ntp_wait" /\ ntpAttempts = 0 /\ NtpSync)

SpecSettings == InitSettings /\ [][NextSettings]_vars

(***************************************************************************)
(* The running device: setup() with stored credentials, then loop() in     *)
(* Provisioning mode (the network never answered) or in Operating mode     *)
(* (with or without the time), while the network, the time service and the *)
(* system clock change and the panel is used.                              *)
(***************************************************************************)
\* how long loop() is followed for, in ms
RunMs == 3000

\* how long one loop() iteration takes
RunDurations == {500, 2500}

\* millis() when setup() hands over to loop(): in Provisioning mode after the 20
\* join waits, in Operating mode after the 10 waits for the time at the latest
ProvisioningEntry == SETUP_DELAY_MS + SPIN_MS + JOIN_MAX_ATTEMPTS * JOIN_DELAY_MS
OperatingEntry == SETUP_DELAY_MS + SPIN_MS + PULSE_MS + NTP_MAX_ATTEMPTS * NTP_DELAY_MS

\* power-on with credentials and settings in the store, manual mode on or off
InitRun ==
  /\ PowerOn
  /\ \E manual \in BOOLEAN :
       preferences = PanelPreferences([ClockSettings EXCEPT !.manualMode = manual])
  /\ rtc \in RtcValues
  /\ response = 0
  /\ submitted = NoSubmission
  /\ handledAt = 0
  /\ restartCause = "power"
  /\ restartsSinceSave = 0
  /\ request = NothingAsked
  /\ replyText = NoText

\* what the panel is asked to change while the device runs
RunSettingsRequests ==
  { <<BareField(KeyManualMode, TrueText)>>,
    <<BareField(KeyManualMode, FalseText)>>,
    <<StringField(KeyTimeFormat, <<"0">>), StringField(KeyHourColor, HexRed)>> }

RunManualTimeRequests ==
  { << BareField(KeyManualHour, <<"2", "3">>), BareField(KeyManualMinute, <<"5", "9">>),
       BareField(KeyManualSecond, <<"5", "9">>) >> }

RunLimit == (IF isConfigMode THEN ProvisioningEntry ELSE OperatingEntry) + RunMs

\* during setup() the network answers before the first poll or not at all, and the
\* time arrives during the last wait or not at all; during loop() both come and go
\* freely
NextRun ==
  \/ SetupBegin
  \/ JoinPoll
  \/ JoinCheck
  \/ NtpPoll
  \/ EnterLoop
  \/ (pc = "join_wait" /\ attempts = 0 /\ NetChange)
  \/ (pc = "ntp_wait" /\ ntpAttempts = NTP_MAX_ATTEMPTS - 1 /\ NtpSync)
  \/ (clock < RunLimit /\ LoopService)
  \/ NoRequest
  \/ TimeGet
  \/ \E fields \in RunSettingsRequests : SettingsPost(fields)
  \/ \E fields \in RunManualTimeRequests : ManualTimePost(fields)
  \/ LoopTailWithin(RunDurations, RunLimit)
  \/ (pc = "loop" /\ NetChange)
  \/ (pc = "loop" /\ NtpSync)
  \/ RtcChange

SpecRun == InitRun /\ [][NextRun]_vars

(***************************************************************************)
(* The millisecond counter at its wrap: a device without credentials that  *)
(* has been in Provisioning mode for as long as millis() takes to come     *)
(* close to its largest value, and is sent credentials then.               *)
(***************************************************************************)
\* how far on either side of the wrap loop() is followed, in ms
WrapSpan == 12000

\* how long one loop() iteration takes near the wrap
WrapDurations == {2000, 4000}

\* how long before the wrap the iteration starts that the device is taken up at:
\* the restart it arms is due long before the wrap, 1 ms before the wrap, exactly
\* at the wrap, 5 s after it, or the counter wraps during the handler's delay(100)
WrapLeads ==
  { WrapSpan,
    RESTART_DELAY_MS + SAVE_FLUSH_DELAY_MS + 1,
    RESTART_DELAY_MS + SAVE_FLUSH_DELAY_MS,
    3000 + SAVE_FLUSH_DELAY_MS,
    SAVE_FLUSH_DELAY_MS \div 2 }

\* the state setup() leaves without stored credentials, after loop() has run for a
\* long time without a request: the animation and the status LED were refreshed in
\* the iteration before
InitWrap ==
  /\ preferences = NoPreferences
  /\ isConfigMode = TRUE
  /\ savedSSID = <<>>
  /\ savedPassword = <<>>
  /\ pendingRestart = InitialPendingRestart
  /\ restartAt = 0
  /\ settings = LoadSettings(NoPreferences)
  /\ lastDisplayedSecond = -1
  /\ lastManualUpdate = 0
  /\ \E lead \in WrapLeads :
       /\ clock = ULongMod - lead
       /\ lastWiFiCheck = clock - LOOP_DELAY_MS
       /\ animLastUpdate = clock - LOOP_DELAY_MS
  /\ animPos = 1
  /\ leds = AnimFrame(0)
  /\ drawn = NotDrawn
  /\ wifi_led = Red
  /\ brightness = SPIN_BRIGHTNESS
  /\ wifiMode = "WIFI_AP"
  /\ wifiBegin = NoCredentials
  /\ wifiStatus = "WL_DISCONNECTED"
  /\ dnsStarted = TRUE
  /\ server = "config"
  /\ ntpTimezone = NoTimezone
  /\ ntpSynced = FALSE
  /\ mdnsOk = FALSE
  /\ rtc \in RtcValues
  /\ pc = "loop"
  /\ attempts = 0
  /\ ntpAttempts = 0
  /\ joinCheckRead = "none"
  /\ response = 0
  /\ submitted = NoSubmission
  /\ handledAt = 0
  /\ restartCause = "power"
  /\ restartsSinceSave = 0
  /\ request = NothingAsked
  /\ replyText = NoText

\* millis() is within WrapSpan of the wrap, before or after it
NearWrap == clock >= ULongMod - WrapSpan \/ clock < WrapSpan

NextWrap ==
  \/ (NearWrap /\ LoopService)
  \/ NoRequest
  \/ SaveNoData
  \/ SaveStore(<<"A">>, <<"p">>)
  \/ SaveArm
  \/ LoopTailWithin(WrapDurations, ULongMod + WrapSpan)

SpecWrap == InitWrap /\ [][NextWrap]_vars

(***************************************************************************)
(* The whole life cycle of a device whose store holds settings of the      *)
(* user: with credentials (it comes up in Operating mode and can be reset) *)
(* or without (it comes up in Provisioning mode and can be given           *)
(* credentials).                                                           *)
(***************************************************************************)
\* settings that differ from the defaults in every field
UserSettings ==
  [timezone |-> OtherTimezone, brightness |-> 200, use24Hour |-> FALSE,
   manualMode |-> TRUE, manualHour |-> 23, manualMinute |-> 58, manualSecond |-> 7,
   hourColor |-> Red, minuteColor |-> Green, secondColor |-> Blue]

InitKeep ==
  /\ PowerOn
  /\ preferences \in { PanelPreferences(UserSettings),
                        SaveSettings(NoPreferences, UserSettings) }
  /\ rtc \in RtcValues
  /\ response = 0
  /\ submitted = NoSubmission
  /\ handledAt = 0
  /\ restartCause = "power"
  /\ restartsSinceSave = 0
  /\ request = NothingAsked
  /\ replyText = NoText

SpecKeep == InitKeep /\ [][Next]_vars

(***************************************************************************)
(* The settings snapshot sent back: a client reads GET /api/settings and   *)
(* posts the text it got, unchanged, to POST /api/settings.                *)
(***************************************************************************)
SnapshotIterations == 2
SnapshotUptime == SETUP_DELAY_MS + SPIN_MS + PULSE_MS + SnapshotIterations * LOOP_DELAY_MS
SnapshotBrightness == {1, 9, DEFAULT_BRIGHTNESS, 200, 255}

\* "key":
JsonKey(key) == Quote \o key \o Quote \o Colon

\* the text the handler of GET /api/settings sends for the settings s
SettingsJson(s) ==
  <<"{">>
  \o JsonKey(KeyTimezone) \o Quote \o s.timezone \o Quote \o Comma
  \o JsonKey(KeyTimeFormat) \o (IF s.use24Hour THEN <<"1">> ELSE <<"0">>) \o Comma
  \o JsonKey(KeyBrightness) \o NumberText(s.brightness) \o Comma
  \o JsonKey(KeyHourColor) \o Quote \o RgbToHex(s.hourColor) \o Quote \o Comma
  \o JsonKey(KeyMinuteColor) \o Quote \o RgbToHex(s.minuteColor) \o Quote \o Comma
  \o JsonKey(KeySecondColor) \o Quote \o RgbToHex(s.secondColor) \o Quote \o Comma
  \o JsonKey(KeyManualMode) \o (IF s.manualMode THEN TrueText ELSE FalseText) \o Comma
  \o JsonKey(KeyManualHour) \o NumberText(s.manualHour) \o Comma
  \o JsonKey(KeyManualMinute) \o NumberText(s.manualMinute) \o Comma
  \o JsonKey(KeyManualSecond) \o NumberText(s.manualSecond)
  \o CloseBrace

\* the settings a user may have stored through the page before the snapshot is read
SnapshotSettings ==
  { [ClockSettings EXCEPT !.use24Hour = f, !.brightness = b, !.manualMode = m,
                          !.timezone = tz, !.hourColor = c] :
      f \in BOOLEAN, b \in SnapshotBrightness, m \in BOOLEAN,
      tz \in {DefaultTimezone, OtherTimezone}, c \in {White, Red} }

InitSnapshot ==
  \E s \in SnapshotSettings :
    /\ rtc = 0
    /\ OperatingAtLoopEntry(PanelPreferences(s), 0)

\* POST /api/settings with the text of GET /api/settings as its body
SnapshotPost ==
  /\ pc = "handle"
  /\ server = "web"
  /\ LET body == SettingsJson(settings)
         updated == SettingsUpdate(settings, body)
     IN  /\ settings' = updated
         /\ ntpTimezone' = IF TimezoneAccepted(body) THEN updated.timezone
                           ELSE ntpTimezone
         /\ brightness' = IF BrightnessAccepted(body) THEN updated.brightness
                          ELSE brightness
         /\ preferences' = SaveSettings(preferences, updated)
  /\ response' = 200
  /\ request' = [route |-> "snapshot", fields |-> <<>>]
  /\ pc' = "tail"
  /\ UNCHANGED <<isConfigMode, savedSSID, savedPassword, pendingRestart, restartAt,
                 lastDisplayedSecond, lastManualUpdate, lastWiFiCheck, animPos,
                 animLastUpdate, leds, wifi_led, drawn, wifiMode, wifiBegin, wifiStatus,
                 dnsStarted, server, ntpSynced, mdnsOk, rtc, clock, setupVars,
                 submitted, handledAt, restartCause, restartsSinceSave, replyText>>

NextSnapshot ==
  \/ (clock < SnapshotUptime /\ LoopService)
  \/ NoRequest
  \/ SnapshotPost
  \/ LoopTailWithin({LOOP_DELAY_MS}, SnapshotUptime)

SpecSnapshot == InitSnapshot /\ [][NextSnapshot]_vars

(***************************************************************************)
(* Properties of boot (SpecBoot, FairBoot).                                *)
(***************************************************************************)
StoredSsid == PrefGet(preferences, "wifiSSID", <<>>)
StoredPassword == PrefGet(preferences, "wifiPass", <<>>)
InSetup == pc \in {"join_wait", "join_check", "ntp_wait", "setup_done"}
Provisioning ==
  isConfigMode /\ wifiMode = "WIFI_AP" /\ dnsStarted /\ server = "config"
Operating ==
  ~isConfigMode /\ wifiMode = "WIFI_STA" /\ ~dnsStarted /\ server = "web"

\* C1: with an empty stored SSID, setup() is in Provisioning mode (isConfigMode set,
\* access point and captive DNS started, setup portal served) as soon as it has read
\* the credentials, and it never called WiFi.begin() nor waited for a join.
C1_EmptySsidProvisions ==
  (pc /= "boot" /\ StoredSsid = <<>>) =>
     /\ pc \in {"setup_done", "loop"}
     /\ Provisioning
     /\ wifiBegin = NoCredentials
     /\ attempts = 0
     /\ joinCheckRead = "none"

C1_Witness == pc = "setup_done" /\ StoredSsid = <<>> /\ isConfigMode

\* C2: with a stored SSID, when the check after the join wait does not read
\* Connected (in particular after all 20 attempts were used up), setup() ends in
\* Provisioning mode, whatever the network did during the wait.
C2_JoinFailureProvisions ==
  (pc = "setup_done" /\ StoredSsid /= <<>> /\ joinCheckRead /= "WL_CONNECTED") =>
     /\ Provisioning
     /\ joinCheckRead = "WL_DISCONNECTED"
     /\ wifiBegin = <<StoredSsid, StoredPassword>>

C2_Witness ==
  /\ pc = "setup_done"
  /\ attempts = JOIN_MAX_ATTEMPTS
  /\ joinCheckRead = "WL_DISCONNECTED"
  /\ isConfigMode

\* C3: with a stored SSID, setup() ends in Operating mode exactly when the check
\* after the join wait read Connected; a poll that reads Connected ends the wait,
\* and a check that reads Connected goes on to startNormalMode().
C3_OperatingIffConnected ==
  [][ /\ (pc' = "setup_done" /\ StoredSsid' /= <<>>) =>
            /\ (~isConfigMode') <=> (joinCheckRead' = "WL_CONNECTED")
            /\ isConfigMode' => Provisioning'
            /\ ~isConfigMode' => Operating'
      /\ (pc = "join_wait" /\ wifiStatus = "WL_CONNECTED" /\ pc' /= pc) =>
            pc' = "join_check"
      /\ (pc = "join_check" /\ wifiStatus = "WL_CONNECTED" /\ pc' /= pc) =>
            (pc' = "ntp_wait" /\ ~isConfigMode')
      /\ (pc = "ntp_wait" /\ pc' /= pc) => (pc' = "setup_done" /\ ~isConfigMode')
    ]_vars

C3_Witness ==
  /\ pc = "setup_done"
  /\ StoredSsid /= <<>>
  /\ joinCheckRead = "WL_CONNECTED"
  /\ attempts > 0
  /\ ~isConfigMode

\* the longest setup() can block: the fixed delays, 20 join waits, 10 time-sync waits
MaxSetupMs ==
  SETUP_DELAY_MS + SPIN_MS + JOIN_MAX_ATTEMPTS * JOIN_DELAY_MS + PULSE_MS
  + NTP_MAX_ATTEMPTS * NTP_DELAY_MS

\* C4: setup() always terminates and loop() starts, with the device in exactly one
\* of Provisioning and Operating, after at most 20 join-wait delays and at most 10
\* time-sync-wait delays.
C4_BootTerminates ==
  /\ [](/\ attempts <= JOIN_MAX_ATTEMPTS
        /\ ntpAttempts <= NTP_MAX_ATTEMPTS
        /\ clock <= MaxSetupMs
        /\ pc \in {"setup_done", "loop"} =>
             (Provisioning \/ Operating) /\ ~(Provisioning /\ Operating))
  /\ <>(pc = "loop")

C4_Witness ==
  /\ pc = "setup_done"
  /\ attempts = JOIN_MAX_ATTEMPTS
  /\ ntpAttempts = NTP_MAX_ATTEMPTS
  /\ ~isConfigMode

\* C5: once the check after the join wait read Connected, startNormalMode() ends
\* in Operating mode with the panel's web server registered, also when mDNS failed
\* and when the time-sync wait used up its 10 attempts.
C5_OperatingDespiteFailures ==
  (joinCheckRead = "WL_CONNECTED") =>
     /\ pc \in {"ntp_wait", "setup_done"}
     /\ ~isConfigMode
     /\ wifiMode = "WIFI_STA"
     /\ ntpTimezone = settings.timezone
     /\ pc = "setup_done" => server = "web"

C5_Witness ==
  /\ pc = "setup_done"
  /\ joinCheckRead = "WL_CONNECTED"
  /\ ~mdnsOk
  /\ ntpAttempts = NTP_MAX_ATTEMPTS
  /\ ~ntpSynced
  /\ server = "web"

(***************************************************************************)
(* Properties of the life cycle (Spec).                                    *)
(***************************************************************************)
\* the persistent store holds what the user typed into the setup page
StoredAsSubmitted ==
  /\ submitted /= NoSubmission
  /\ StoredSsid = submitted[1]
  /\ StoredPassword = submitted[2]

\* the armed restart lies at least the configured delay after the request
ArmedLateEnough ==
  (pendingRestart /\ pc /= "save_arm") => restartAt >= handledAt + RESTART_DELAY_MS

\* the check at the end of loop() restarts only when armed and due
RestartOnlyWhenDue ==
  (pc = "tail" /\ pc' = "boot") => (pendingRestart /\ clock >= restartAt)

\* C6: POST /save has written the submitted SSID and password to the persistent
\* store when it comes to arm the restart, it arms the restart at least 8000 ms
\* after the request was taken up, and loop() never restarts while the restart is
\* unarmed or millis() is below restartAt.
C6_SaveStoresThenArms ==
  /\ [](pc = "save_arm" => StoredAsSubmitted)
  /\ []ArmedLateEnough
  /\ [][RestartOnlyWhenDue]_vars

\* C7: from the moment a credential update has armed the restart until the restart
\* executes, the mode, the stored credentials and restartAt do not change, whatever
\* requests arrive.
C7_ArmedMeansFrozen ==
  [][ (pendingRestart /\ pendingRestart') =>
         /\ isConfigMode' = isConfigMode
         /\ StoredSsid' = StoredSsid
         /\ StoredPassword' = StoredPassword
         /\ restartAt' = restartAt
    ]_vars

\* C8: every loop() iteration that does not end in the factory reset comes to the
\* restart check; the check restarts the device exactly when pendingRestart is set
\* and millis() >= restartAt; every boot starts with pendingRestart clear, so no
\* credential update is followed by a second deferred restart.
C8_RestartFiresOnce ==
  /\ [](/\ pc = "boot" => (~pendingRestart /\ restartAt = 0)
        /\ restartsSinceSave <= 1
        /\ (restartCause = "deferred" /\ restartsSinceSave = 1) => ~pendingRestart)
  /\ [][ /\ (pc = "tail" /\ pc' /= pc) =>
              /\ pc' \in {"boot", "loop"}
              /\ pc' = "boot" <=> (pendingRestart /\ clock >= restartAt)
              /\ pc' = "boot" =>
                   (restartCause' = "deferred" /\ restartsSinceSave = 0)
         /\ (pc = "loop" /\ pc' /= pc) => pc' = "handle"
         /\ (pc = "handle" /\ pc' /= pc) =>
              \/ pc' \in {"tail", "save_arm"}
              \/ (pc' = "boot" /\ restartCause' = "factory")
         /\ (pc = "save_arm" /\ pc' /= pc) => (pc' = "tail" /\ pendingRestart')
         /\ (pendingRestart /\ ~pendingRestart') => (pc = "tail" /\ pc' = "boot")
       ]_vars

\* a boot after the deferred restart has come to loop() and finished an iteration
\* without restarting again
C8_Witness ==
  /\ pc = "loop"
  /\ clock > 0
  /\ restartCause = "deferred"
  /\ restartsSinceSave = 1
  /\ ~pendingRestart
  /\ lastWiFiCheck > 0

\* C9: POST /api/resetwifi removes both credential keys, answers 200 and restarts
\* at once, with pendingRestart never set; the boot that follows reads an empty SSID
\* and ends in Provisioning mode without a join attempt.
C9_FactoryReset ==
  /\ [](restartCause = "factory" =>
          /\ pc = "boot" =>
               /\ "wifiSSID" \notin DOMAIN preferences
               /\ "wifiPass" \notin DOMAIN preferences
               /\ response = 200
               /\ ~pendingRestart
          /\ pc /= "boot" =>
               /\ savedSSID = <<>>
               /\ savedPassword = <<>>
               /\ Provisioning
               /\ wifiBegin = NoCredentials
               /\ attempts = 0)
  /\ [][ /\ (pc = "handle" /\ pc' = "boot") =>
              /\ server = "web"
              /\ ~pendingRestart
              /\ restartCause' = "factory"
              /\ StoredSsid' = <<>>
              /\ StoredPassword' = <<>>
         /\ (restartCause = "factory" /\ pc = "boot" /\ pc' /= pc) =>
              pc' = "setup_done"
       ]_vars

\* the device was reset from the panel while credentials were stored, and has come
\* up in Provisioning mode
C9_Witness ==
  /\ restartCause = "factory"
  /\ submitted = NoSubmission
  /\ pc = "loop"
  /\ isConfigMode
  /\ server = "config"
  /\ StoredSsid = <<>>

\* the boot after the deferred restart calls WiFi.begin() with what was submitted
JoinsWithSubmitted ==
  (InSetup /\ restartCause = "deferred" /\ restartsSinceSave = 1) =>
     /\ wifiBegin /= NoCredentials
     /\ wifiBegin = submitted

\* that boot ends in Operating mode, time sync requested, when the join succeeds
OperatingAfterSubmission ==
  (pc = "setup_done" /\ restartCause = "deferred"
     /\ joinCheckRead = "WL_CONNECTED") =>
     (Operating /\ ntpTimezone = settings.timezone)

\* the frame loop() has drawn at the end of an iteration
ClockFrame ==
  LET localTime == LocalTime(rtc)
  IN  DrawClock(DisplayHour(localTime.tm_hour, settings.use24Hour),
                localTime.tm_min, localTime.tm_sec, localTime.tm_hour >= 12,
                settings)

\* in Operating mode with the clock not set by hand, an iteration leaves the LEDs
\* showing the system time
FrameEncodesTime ==
  (pc = "tail" /\ pc' = "loop" /\ ~isConfigMode /\ ~settings.manualMode) =>
     leds' = ClockFrame'

\* C10: a device without credentials boots into Provisioning mode; after a
\* credential update and the deferred restart, setup() calls WiFi.begin() with
\* exactly the submitted SSID and password and, when the join succeeds, ends in
\* Operating mode with time sync requested; loop() then shows the system time.
C10_EndToEnd ==
  /\ []((restartCause = "power" /\ pc \in {"setup_done", "loop"}) => Provisioning)
  /\ []JoinsWithSubmitted
  /\ []OperatingAfterSubmission
  /\ [][FrameEncodesTime]_vars

(***************************************************************************)
(* Properties of the display (SpecDisplay).                                *)
(***************************************************************************)
\* the time the last drawClock() call was made for: the manual clock, or the system
\* time loop() last looked at
SourceTime ==
  IF settings.manualMode
    THEN [hour |-> settings.manualHour, minute |-> settings.manualMinute,
          second |-> settings.manualSecond]
    ELSE [hour |-> LocalTime(lastDisplayedSecond).tm_hour,
          minute |-> LocalTime(lastDisplayedSecond).tm_min,
          second |-> LocalTime(lastDisplayedSecond).tm_sec]

\* the colour LED n has to show for the fields h, m, sec: hour bit b is LED 5 - b,
\* minute bit b is LED 11 - b, second bit b is LED 17 - b, LED 0 is not used
SlotColour(n, h, m, sec) ==
  IF n \in 1 .. 5 /\ BitSet(h, 5 - n) THEN settings.hourColor
  ELSE IF n \in 6 .. 11 /\ BitSet(m, 11 - n) THEN settings.minuteColor
  ELSE IF n \in 12 .. 17 /\ BitSet(sec, 17 - n) THEN settings.secondColor
  ELSE Black

SlotLit(n, h, m, sec) ==
  \/ n \in 1 .. 5 /\ BitSet(h, 5 - n)
  \/ n \in 6 .. 11 /\ BitSet(m, 11 - n)
  \/ n \in 12 .. 17 /\ BitSet(sec, 17 - n)

\* C11: after drawClock(hour, minute, second) with hour in 0..23 and minute, second
\* in 0..59, whatever frame was on the LEDs before, an LED is lit exactly when it is
\* the slot of a 1-bit of the hour, the minute or the second, it then has the colour
\* configured for that field, and every other LED is dark; the frame is a function
\* of the three numbers and the colours alone.
C11_DrawClockEncodes ==
  (drawn /= NotDrawn /\ drawn.hour \in 0 .. 23 /\ drawn.minute \in 0 .. 59
     /\ drawn.second \in 0 .. 59) =>
     \A n \in LedIndex :
       /\ leds[n] /= Black <=> SlotLit(n, drawn.hour, drawn.minute, drawn.second)
       /\ leds[n] = SlotColour(n, drawn.hour, drawn.minute, drawn.second)

\* 23:59:59 drawn over the green frame the startup animation left
C11_Witness ==
  /\ drawn /= NotDrawn
  /\ drawn.hour = 23 /\ drawn.minute = 59 /\ drawn.second = 59
  /\ leds[1] = White /\ leds[2] = Black /\ leds[6] = Blue /\ leds[12] = Red
  /\ leds[0] = Black
  /\ lastDisplayedSecond = DaySeconds - 1

\* the hour a 12-hour clock shows for h
TwelveHour(h) == IF h = 0 \/ h = 12 THEN 12 ELSE h % 12

\* C12: with use24Hour off, the hour loop() hands to drawClock() for the hour h of
\* the time source is 12 for h = 0 and h = 12 and h mod 12 otherwise (always in
\* 1..12); with use24Hour on it is h itself; isPM is h >= 12.
C12_TwelveHourConversion ==
  (drawn /= NotDrawn /\ SourceTime.hour \in 0 .. 23) =>
     /\ ~settings.use24Hour =>
          (drawn.hour = TwelveHour(SourceTime.hour) /\ drawn.hour \in 1 .. 12)
     /\ settings.use24Hour => drawn.hour = SourceTime.hour
     /\ drawn.isPM <=> SourceTime.hour >= 12
     /\ drawn.minute = SourceTime.minute
     /\ drawn.second = SourceTime.second

\* midnight shown as 12 AM
C12_Witness ==
  /\ drawn /= NotDrawn
  /\ ~settings.use24Hour
  /\ SourceTime.hour = 0
  /\ drawn.hour = 12
  /\ ~drawn.isPM

\* both display paths of loop() hand over the same hour and isPM for the same hour
DisplayPathsAgree ==
  (drawn /= NotDrawn /\ SourceTime.hour \in 0 .. 23) =>
     /\ drawn.hour = (IF settings.use24Hour THEN SourceTime.hour
                      ELSE TwelveHour(SourceTime.hour))
     /\ drawn.isPM <=> SourceTime.hour >= 12

\* GET /api/time has just answered for the manual clock
ManualTimeAnswered ==
  /\ pc = "tail"
  /\ request.route = "time"
  /\ settings.manualMode
  /\ settings.manualHour \in 0 .. 23

\* the text a display path's hour and isPM would give
TextOfDisplayPath(withSuffix) ==
  ClockText(IF settings.use24Hour THEN settings.manualHour
            ELSE TwelveHour(settings.manualHour),
            settings.manualMinute, settings.manualSecond)
  \o (IF ~withSuffix THEN <<>>
      ELSE IF settings.manualHour >= 12 THEN TextPM ELSE TextAM)

\* C13 as stated: for either value of use24Hour the two display paths and the manual
\* branch of the time text give the same displayed hour and the same AM/PM value.
C13_SameConversionStated ==
  /\ DisplayPathsAgree
  /\ ManualTimeAnswered => replyText = TextOfDisplayPath(TRUE)

\* C13: the two display paths and the manual branch of the time text give the same
\* displayed hour for either value of use24Hour, and the same AM/PM value when
\* use24Hour is off; with use24Hour on the time text carries no AM/PM value, while
\* the display paths still compute isPM as h >= 12.
C13_SameConversion ==
  /\ DisplayPathsAgree
  /\ ManualTimeAnswered => replyText = TextOfDisplayPath(~settings.use24Hour)

\* the time text for midnight on the 12-hour manual clock
C13_Witness ==
  /\ ManualTimeAnswered
  /\ ~settings.use24Hour
  /\ settings.manualHour = 0
  /\ replyText = ClockText(12, settings.manualMinute, settings.manualSecond) \o TextAM

(***************************************************************************)
(* Properties of the manual clock (SpecManual).                            *)
(***************************************************************************)
ManualTriple == <<settings.manualHour, settings.manualMinute, settings.manualSecond>>

\* the time of day one second after <<h, m, sec>>
SecondAfter(t) ==
  LET n == ((t[1] * 60 + t[2]) * 60 + t[3] + 1) % DaySeconds
  IN  <<n \div 3600, (n \div 60) % 60, n % 60>>

TripleInRange(t) == t[1] \in 0 .. 23 /\ t[2] \in 0 .. 59 /\ t[3] \in 0 .. 59

\* a loop() iteration in Operating mode with the manual clock on comes to its end
ManualIterationEnds ==
  pc = "tail" /\ pc' = "loop" /\ ~isConfigMode /\ settings.manualMode

\* the iteration moves the manual clock one second of the day on when the second is
\* over, and leaves it alone otherwise
TicksOneSecond ==
  IF ULong(clock - lastManualUpdate) >= MANUAL_TICK_MS
    THEN ManualTriple' = SecondAfter(ManualTriple)
    ELSE ManualTriple' = ManualTriple

\* C14: in Operating mode with manualMode on, a loop() iteration at whose redraw at
\* least 1000 ms have passed since the last advance moves the manual clock forward
\* by exactly one second of a 24-hour day (23:59:59 becomes 0:00:00), an iteration
\* with less than 1000 ms passed leaves it unchanged, and no iteration moves it by
\* more than one second.
C14_ManualTick == [][ManualIterationEnds => TicksOneSecond]_vars

\* the same for a manual clock that holds a time of day
ManualTickOfValidTime ==
  [][(ManualIterationEnds /\ TripleInRange(ManualTriple)) => TicksOneSecond]_vars

\* 23:59:59 has become 0:00:00 in an iteration that came two seconds after the last
ManualRolloverReached ==
  /\ pc = "loop"
  /\ settings.manualMode
  /\ ManualTriple = <<0, 0, 0>>
  /\ drawn /= NotDrawn
  /\ drawn.hour = 0 /\ drawn.minute = 0 /\ drawn.second = 0
  /\ lastManualUpdate > 0

\* POST /api/manualtime has just answered, with the manual clock on
OverwriteAnswered ==
  pc = "tail" /\ request.route = "manualtime" /\ ~isConfigMode /\ settings.manualMode

\* C15: a manual-time overwrite replaces the triple at once and resets the advance
\* timer so that the next tick is a full second away: the iteration that handled
\* the overwrite leaves the triple at the submitted values (less than 1000 ms have
\* passed), and the frame it draws, if any, shows the submitted time.
C15_OverwriteHoldsASecond ==
  [][ (OverwriteAnswered /\ pc' = "loop") =>
         /\ ManualTriple' = ManualTriple
         /\ drawn' /= drawn =>
              /\ drawn'.minute = settings.manualMinute
              /\ drawn'.second = settings.manualSecond
    ]_vars

\* the overwrite itself replaces the components it names at once
OverwriteReplaces ==
  [][ (pc = "handle" /\ request'.route = "manualtime") =>
         \A f \in 1 .. Len(request'.fields) :
           LET field == request'.fields[f]
               given == UInt8(ToInt(field.value))
           IN  /\ field.key = KeyManualHour => settings'.manualHour = given
               /\ field.key = KeyManualMinute => settings'.manualMinute = given
               /\ field.key = KeyManualSecond => settings'.manualSecond = given
    ]_vars

\* C16: in every reachable state manualHour is in 0..23, manualMinute in 0..59 and
\* manualSecond in 0..59, after any sequence of ticks, settings updates and
\* manual-time overwrites.
C16_ManualTimeInRange == TripleInRange(ManualTriple)

\* ticks and settings updates alone keep the manual clock a time of day
TicksKeepRange ==
  [][ (TripleInRange(ManualTriple) /\ ~(pc = "handle" /\ request'.route = "manualtime")) =>
         TripleInRange(ManualTriple') ]_vars

(***************************************************************************)
(* Properties of the settings (SpecSettings).                              *)
(***************************************************************************)
\* the handler of POST /api/settings, of POST /api/manualtime, takes a request
SettingsStep == pc = "handle" /\ request'.route = "settings"
OverwriteStep == pc = "handle" /\ request'.route = "manualtime"

Named(fields, key) == \E i \in 1 .. Len(fields) : fields[i].key = key
ValueOf(fields, key) == fields[CHOOSE i \in 1 .. Len(fields) : fields[i].key = key].value

\* the text of the key is nowhere in the body, neither as a key nor inside a value
Occurs(text, key) ==
  \E i \in 0 .. (Len(text) - Len(key)) : SubSeq(text, i + 1, i + Len(key)) = key
KeyAbsent(fields, key) ==
  \A i \in 1 .. Len(fields) : fields[i].key /= key /\ ~Occurs(fields[i].value, key)

SettingsKeys ==
  {KeyTimezone, KeyTimeFormat, KeyBrightness, KeyManualMode, KeyHourColor,
   KeyMinuteColor, KeySecondColor}
ManualTimeKeys == {KeyManualHour, KeyManualMinute, KeyManualSecond}

\* the ClockSettings field a key of the API stands for
FieldOfKey(key) ==
  CASE key = KeyTimezone -> "timezone"
    [] key = KeyTimeFormat -> "use24Hour"
    [] key = KeyBrightness -> "brightness"
    [] key = KeyManualMode -> "manualMode"
    [] key = KeyHourColor -> "hourColor"
    [] key = KeyMinuteColor -> "minuteColor"
    [] key = KeySecondColor -> "secondColor"
    [] key = KeyManualHour -> "manualHour"
    [] key = KeyManualMinute -> "manualMinute"
    [] key = KeyManualSecond -> "manualSecond"

\* a brightness text that is a number in 1..255
UsableBrightness(text) ==
  /\ text /= <<>>
  /\ \A i \in 1 .. Len(text) : IsDigit(text[i])
  /\ ToInt(text) \in 1 .. 255

\* "#rrggbb" and the colour it stands for
IsHexColour(text) ==
  Len(text) = 7 /\ text[1] = "#" /\ \A i \in 2 .. 7 : IsHexDigit(text[i])
ColourOfHex(text) ==
  << 16 * HexDigitValue(text[2]) + HexDigitValue(text[3]),
     16 * HexDigitValue(text[4]) + HexDigitValue(text[5]),
     16 * HexDigitValue(text[6]) + HexDigitValue(text[7]) >>

\* C17: in every reachable state settings.brightness is in 1..255, and so is the
\* brightness the persistent store holds: no settings update with a brightness of
\* 0, below 0, above 255 or not a number, and no reload from the store, yields a
\* brightness outside that range.
C17_BrightnessInRange ==
  /\ settings.brightness \in 1 .. 255
  /\ PrefGet(preferences, "brightness", DEFAULT_BRIGHTNESS) \in 1 .. 255

\* brightness 200 was saved, the device was switched off and on, and an update with
\* brightness 300 has just been answered
C17_Witness ==
  /\ restartCause = "cycle"
  /\ pc = "tail"
  /\ request.route = "settings"
  /\ Named(request.fields, KeyBrightness)
  /\ ValueOf(request.fields, KeyBrightness) = <<"3", "0", "0">>
  /\ settings.brightness = 200

\* C18: a settings update with a brightness that is no number in 1..255 and the
\* hourColor #ff0000 leaves brightness as it was, sets hourColor to red, answers
\* 200, and the store then holds exactly the resulting settings.
C18_BadBrightnessGoodColour ==
  [][ (/\ SettingsStep
       /\ Named(request'.fields, KeyBrightness)
       /\ ~UsableBrightness(ValueOf(request'.fields, KeyBrightness))
       /\ Named(request'.fields, KeyHourColor)
       /\ ValueOf(request'.fields, KeyHourColor) = HexRed) =>
         /\ settings'.brightness = settings.brightness
         /\ settings'.hourColor = Red
         /\ response' = 200
         /\ PrefGet(preferences', "brightness", 0) = settings.brightness
         /\ PrefGet(preferences', "hourColor", 0) = CodeOfColor(Red)
         /\ LoadSettings(preferences') = settings'
    ]_vars

\* brightness "abc" with hourColor "#ff0000", on a device that had brightness 255
C18_Witness ==
  /\ pc = "tail"
  /\ request.route = "settings"
  /\ request.fields = << StringField(KeyBrightness, <<"a", "b", "c">>),
                         StringField(KeyHourColor, HexRed) >>
  /\ settings.brightness = 255
  /\ settings.hourColor = Red
  /\ LoadSettings(preferences) = settings

\* a value of the field is well formed
WellFormed(field) ==
  CASE field.key = KeyTimezone -> field.value /= <<>>
    [] field.key = KeyTimeFormat -> field.value \in {<<"0">>, <<"1">>}
    [] field.key = KeyBrightness -> UsableBrightness(field.value)
    [] field.key = KeyManualMode -> field.value \in {TrueText, FalseText}
    [] OTHER -> IsHexColour(field.value)

\* what a well-formed value of the field stands for
Decoded(field) ==
  CASE field.key = KeyTimezone -> field.value
    [] field.key = KeyTimeFormat -> field.value = <<"1">>
    [] field.key = KeyBrightness -> ToInt(field.value)
    [] field.key = KeyManualMode -> field.value = TrueText
    [] OTHER -> ColourOfHex(field.value)

\* every well-formed field of the update is applied, and every malformed field whose
\* key is in `checked` keeps its value
FieldsHandled(fields, checked) ==
  \A i \in 1 .. Len(fields) :
    LET name == FieldOfKey(fields[i].key)
    IN  IF WellFormed(fields[i]) THEN settings'[name] = Decoded(fields[i])
        ELSE fields[i].key \in checked => settings'[name] = settings[name]

\* C19: in a settings update every malformed or out-of-range field (timezone,
\* timeFormat, brightness, manualMode, hourColor, minuteColor, secondColor) keeps
\* its previous value, while the well-formed fields of the same update are applied.
C19_MalformedSkipped ==
  [][SettingsStep => FieldsHandled(request'.fields, SettingsKeys)]_vars

\* the same for the two fields the handler checks before it assigns
MalformedSkippedWhereChecked ==
  [][SettingsStep => FieldsHandled(request'.fields, {KeyTimezone, KeyBrightness})]_vars

SettingsStoreKeys ==
  {"timezone", "brightness", "use24Hour", "manualMode", "manualHour", "manualMinute",
   "manualSecond", "hourColor", "minuteColor", "secondColor"}

\* the store p holds the record s, field by field
Persisted(p, s) ==
  /\ SettingsStoreKeys \subseteq DOMAIN p
  /\ p["timezone"] = s.timezone
  /\ p["brightness"] = s.brightness
  /\ p["use24Hour"] = s.use24Hour
  /\ p["manualMode"] = s.manualMode
  /\ p["manualHour"] = s.manualHour
  /\ p["manualMinute"] = s.manualMinute
  /\ p["manualSecond"] = s.manualSecond
  /\ p["hourColor"] = s.hourColor[1] * 65536 + s.hourColor[2] * 256 + s.hourColor[3]
  /\ p["minuteColor"] =
       s.minuteColor[1] * 65536 + s.minuteColor[2] * 256 + s.minuteColor[3]
  /\ p["secondColor"] =
       s.secondColor[1] * 65536 + s.secondColor[2] * 256 + s.secondColor[3]

\* a handler has answered without a request of the API being taken up
NoBodyStep == pc = "handle" /\ response' /= 0 /\ request'.route = "none"

\* C21: when the handler of an accepted settings update or manual-time overwrite
\* is through, the persistent store holds the in-memory ClockSettings in every
\* field; a request without a body changes neither and is answered with an error.
C21_StoreFollowsMemory ==
  [][ /\ (SettingsStep \/ OverwriteStep) =>
            (response' = 200 /\ Persisted(preferences', settings'))
      /\ NoBodyStep =>
            (response' >= 400 /\ settings' = settings /\ preferences' = preferences)
    ]_vars

\* 23:59:59 submitted to a manual clock that was stored at another second
C21_Witness ==
  /\ pc = "tail"
  /\ request.route = "manualtime"
  /\ Len(request.fields) = 3
  /\ ManualTriple = <<23, 59, 59>>
  /\ Persisted(preferences, settings)

\* the fields of the record are values the API accepts
SettingsInRange(s) ==
  /\ s.timezone /= <<>>
  /\ s.brightness \in 1 .. 255
  /\ s.manualHour \in 0 .. 23
  /\ s.manualMinute \in 0 .. 59
  /\ s.manualSecond \in 0 .. 59

\* C22: for a ClockSettings value with its fields in range, what saveSettings()
\* wrote is read back by loadSettings() as the identical record, and setup() after
\* a restart puts exactly that record of the unchanged store in force.
C22_SaveLoadRoundTrip ==
  [][ /\ ((SettingsStep \/ OverwriteStep) /\ SettingsInRange(settings')) =>
            LoadSettings(preferences') = settings'
      /\ (pc = "boot" /\ pc' /= "boot") =>
            (preferences' = preferences /\ settings' = LoadSettings(preferences))
    ]_vars

\* brightness 200 and the hour colour red, saved before the power cycle, are in
\* force after it
C22_Witness ==
  /\ restartCause = "cycle"
  /\ pc = "setup_done"
  /\ ~isConfigMode
  /\ settings.brightness = 200
  /\ settings.hourColor = Red

\* the store holds no settings record
NoStoredSettings == DOMAIN preferences \cap SettingsStoreKeys = {}

\* C23: on a first boot with no stored record, the settings in force after
\* loadSettings() are the defaults declared for ClockSettings, field by field.
C23_FirstBootDefaults ==
  (pc /= "boot" /\ NoStoredSettings) => settings = ClockSettings

\* the same without the minute and second colours
FirstBootDefaultsButColours ==
  (pc /= "boot" /\ NoStoredSettings) =>
     [settings EXCEPT !.minuteColor = Blue, !.secondColor = Red] = ClockSettings

(***************************************************************************)
(* Properties of the running device (SpecRun, Spec).                       *)
(***************************************************************************)
\* a loop() iteration ends without a restart
IterationEnds == pc = "tail" /\ pc' = "loop"

\* loop() is running
InLoop == pc \in {"loop", "handle", "save_arm", "tail"}

\* C24: the iteration of loop() refreshes the status LED exactly when more than
\* 2000 ms have passed since its last refresh, in both modes and whether or not
\* it redraws; after that refresh, and after the one setup() makes when the join
\* wait is over, the LED is green if the status read is connected and red
\* otherwise; it is red throughout Provisioning mode, and nothing else in loop()
\* changes it
C24_StatusLed ==
  [][ /\ IterationEnds =>
           IF ULong(clock - lastWiFiCheck) > WIFI_CHECK_MS
             THEN /\ lastWiFiCheck' = clock
                  /\ wifi_led' = (IF wifiStatus = "WL_CONNECTED" THEN Green ELSE Red)
             ELSE /\ lastWiFiCheck' = lastWiFiCheck
                  /\ wifi_led' = wifi_led
      /\ pc = "join_check" =>
           wifi_led' = (IF wifiStatus' = "WL_CONNECTED" THEN Green ELSE Red)
      /\ isConfigMode' => wifi_led' = Red
      /\ (InLoop /\ wifi_led' /= wifi_led) => IterationEnds ]_vars

\* the LED went red in Operating mode after the network was lost
C24_Witness ==
  /\ pc = "loop"
  /\ ~isConfigMode
  /\ wifiStatus = "WL_DISCONNECTED"
  /\ wifi_led = Red
  /\ lastWiFiCheck > OperatingEntry

\* the active time source has a second the display has not shown yet: the manual
\* clock is due to advance, or the system second is not the one the synced path
\* drew last
RedrawDue ==
  /\ ~isConfigMode
  /\ IF settings.manualMode
       THEN ULong(clock - lastManualUpdate) >= MANUAL_TICK_MS
       ELSE rtc /= lastDisplayedSecond

\* the frame of a drawClock() call for <<hour, minute, second>> of a day
FrameOf(t) ==
  [hour |-> DisplayHour(t[1], settings'.use24Hour), minute |-> t[2], second |-> t[3],
   isPM |-> IsPM(t[1])]

\* loop() draws in the iterations in which the second of the active source changed
\* and in no other: then the manual clock advances and its new time is drawn, or
\* the system second is drawn and remembered; otherwise the LEDs stay as they are;
\* the handlers draw nothing
RedrawsOnSecondChange ==
  /\ (IterationEnds /\ RedrawDue /\ settings.manualMode) =>
        /\ ManualTriple' /= ManualTriple
        /\ drawn' = FrameOf(ManualTriple')
        /\ lastManualUpdate' = clock
  /\ (IterationEnds /\ RedrawDue /\ ~settings.manualMode) =>
        /\ drawn' = FrameOf(<<LocalTime(rtc).tm_hour, LocalTime(rtc).tm_min,
                              LocalTime(rtc).tm_sec>>)
        /\ lastDisplayedSecond' = rtc
        /\ ManualTriple' = ManualTriple
  /\ (IterationEnds /\ ~RedrawDue) =>
        /\ leds' = leds
        /\ drawn' = drawn
        /\ ManualTriple' = ManualTriple
        /\ lastDisplayedSecond' = lastDisplayedSecond
  /\ (SettingsStep \/ OverwriteStep) => (leds' = leds /\ drawn' = drawn)

\* C25 as stated: the clock is redrawn only when the integral second changes, and
\* an accepted settings update (colours, 12/24-hour, manual mode) never makes a
\* redraw due that was not due before it
C25_RedrawOnlyOnSecondChange ==
  [][ /\ RedrawsOnSecondChange
      /\ (SettingsStep /\ response' = 200) => (RedrawDue' => RedrawDue) ]_vars

\* C25, amended: the clock is redrawn only when the second of the active source
\* changes; a settings update that keeps manualMode as it is never makes a redraw
\* due, while one that switches manualMode changes the source, whose redraw may be
\* due at once
C25_RedrawOnSecondOrSourceChange ==
  [][ /\ RedrawsOnSecondChange
      /\ (SettingsStep /\ response' = 200 /\ settings'.manualMode = settings.manualMode) =>
            (RedrawDue' => RedrawDue) ]_vars

\* synced mode, the colours and the hour format were changed and the second drawn
\* last is still the system second: the iteration is about to end without a redraw
C25_Witness ==
  /\ pc = "tail"
  /\ ~isConfigMode
  /\ ~settings.manualMode
  /\ request.route = "settings"
  /\ settings.hourColor = Red
  /\ ~settings.use24Hour
  /\ drawn /= NotDrawn
  /\ rtc = lastDisplayedSecond

\* C26: in Provisioning mode loop() never draws a clock frame and never advances
\* the manual clock, whether manualMode is on or off: the only thing that changes
\* the LEDs is the animation step; in Operating mode no captive DNS runs and the
\* start of an iteration leaves the animation and the LEDs alone
C26_ProvisioningDrawsNoClock ==
  [][ /\ (InLoop /\ isConfigMode) =>
           /\ drawn = NotDrawn /\ drawn' = NotDrawn
           /\ settings' = settings
           /\ lastManualUpdate' = lastManualUpdate
           /\ lastDisplayedSecond' = lastDisplayedSecond
           /\ leds' /= leds =>
                 /\ pc = "loop"
                 /\ dnsStarted
                 /\ ULong(clock - animLastUpdate) >= ANIM_STEP_MS
                 /\ leds' = AnimFrame(animPos)
      /\ (InLoop /\ ~isConfigMode) =>
           /\ ~dnsStarted
           /\ animPos' = animPos /\ animLastUpdate' = animLastUpdate
           /\ pc = "loop" => (leds' = leds /\ brightness' = brightness) ]_vars

\* Provisioning mode with manualMode on, 2500 ms into loop(): the animation ran,
\* the manual clock still shows the stored time and no clock frame was drawn
C26_Witness ==
  /\ isConfigMode
  /\ settings.manualMode
  /\ pc = "loop"
  /\ clock >= ProvisioningEntry + 2500
  /\ animPos > 1
  /\ ManualTriple = <<12, 0, 0>>
  /\ drawn = NotDrawn

\* the LEDs of the clock frame for <<hour, minute, second>> of a day, in the colours
\* and the hour format in force after the step
LedsOf(t) ==
  DrawClock(DisplayHour(t[1], settings'.use24Hour), t[2], t[3], IsPM(t[1]), settings')

SystemTriple == <<LocalTime(rtc).tm_hour, LocalTime(rtc).tm_min, LocalTime(rtc).tm_sec>>

\* C27: whenever an iteration of loop() in Operating mode draws, the frame is that
\* of the manual triple if manualMode is on and that of the system local time if
\* it is off, whatever the network status and whether or not the time was ever
\* synchronised; with manualMode off the iteration leaves the manual triple as it
\* is
C27_SourceByManualMode ==
  [][ (IterationEnds /\ ~isConfigMode) =>
        /\ (leds' /= leds \/ drawn' /= drawn) =>
              IF settings.manualMode
                THEN drawn' = FrameOf(ManualTriple') /\ leds' = LedsOf(ManualTriple')
                ELSE drawn' = FrameOf(SystemTriple) /\ leds' = LedsOf(SystemTriple)
        /\ ~settings.manualMode => ManualTriple' = ManualTriple ]_vars

\* Operating mode without network and without synchronised time, manualMode off:
\* the frame on the LEDs is that of the system clock
C27_Witness ==
  /\ pc = "loop"
  /\ ~isConfigMode
  /\ ~ntpSynced
  /\ wifiStatus = "WL_DISCONNECTED"
  /\ ~settings.manualMode
  /\ drawn /= NotDrawn
  /\ drawn.second = LocalTime(rtc).tm_sec
  /\ leds = DrawClock(drawn.hour, drawn.minute, drawn.second, drawn.isPM, settings)

\* the components a manual-time body names are the ones the settings hold after
\* the step
SubmittedTripleStored ==
  \A f \in 1 .. Len(request'.fields) :
    LET field == request'.fields[f]
        given == UInt8(ToInt(field.value))
    IN  /\ field.key = KeyManualHour => settings'.manualHour = given
        /\ field.key = KeyManualMinute => settings'.manualMinute = given
        /\ field.key = KeyManualSecond => settings'.manualSecond = given

\* C28: a manual-time overwrite is accepted with manualMode on and with manualMode
\* off alike: it replaces the triple, saves the settings, answers 200 and leaves
\* manualMode, and every field but the triple, as it was
C28_OverwriteInEitherMode ==
  [][ OverwriteStep =>
        /\ response' = 200
        /\ SubmittedTripleStored
        /\ Persisted(preferences', settings')
        /\ settings'.manualMode = settings.manualMode
        /\ [settings' EXCEPT !.manualHour = settings.manualHour,
                             !.manualMinute = settings.manualMinute,
                             !.manualSecond = settings.manualSecond] = settings ]_vars

\* with manualMode off, 23:59:59 was submitted: the iteration is over, the triple
\* is the submitted one in memory and in the store, and manualMode is still off
C28_Witness ==
  /\ pc = "loop"
  /\ ~isConfigMode
  /\ ~settings.manualMode
  /\ request.route = "manualtime"
  /\ response = 200
  /\ ManualTriple = <<23, 59, 59>>
  /\ Persisted(preferences, settings)

\* GET /api/time is answered
TimeQueryStep == pc = "handle" /\ request'.route = "time"

\* the text of the manual clock in the hour format in force
ManualClockText ==
  IF settings.use24Hour
    THEN ClockText(settings.manualHour, settings.manualMinute, settings.manualSecond)
    ELSE ClockText(IF settings.manualHour % 12 = 0 THEN 12 ELSE settings.manualHour % 12,
                   settings.manualMinute, settings.manualSecond)
         \o (IF settings.manualHour >= 12 THEN TextPM ELSE TextAM)

\* C29: when the time-sync wait of setup() is used up without the time, setup()
\* goes on into Operating mode; a time query answered with manualMode off before
\* the time was ever synchronised says "Time not available"; a time query with
\* manualMode on answers with the manual clock, synchronised or not
C29_TimeQueryBySource ==
  [][ /\ (pc = "ntp_wait" /\ ntpAttempts = NTP_MAX_ATTEMPTS /\ ~ntpSynced) =>
           (pc' = "setup_done" /\ Operating' /\ ~ntpSynced')
      /\ (pc = "setup_done" /\ ~isConfigMode) => (pc' = "loop" /\ Operating')
      /\ TimeQueryStep =>
           /\ response' = 200
           /\ (~settings.manualMode /\ ~ntpSynced) => replyText' = TimeNotAvailable
           /\ settings.manualMode => replyText' = ManualClockText ]_vars

\* the time-sync wait timed out, the device is in Operating mode with manualMode
\* off and a time query was just answered "Time not available"
C29_Witness ==
  /\ pc = "tail"
  /\ Operating
  /\ ~ntpSynced
  /\ ~settings.manualMode
  /\ request.route = "time"
  /\ response = 200
  /\ replyText = TimeNotAvailable

\* C30: while loop() runs, the mode setup() chose stays: no step of loop() that is
\* not a restart changes isConfigMode, the radio mode, the captive DNS or the
\* server that is running, also when the network is lost or comes back; the mode
\* changes only in setup() and by a restart
C30_ModeFixedInLoop ==
  [][ /\ (InLoop /\ InLoop') =>
           /\ isConfigMode' = isConfigMode
           /\ wifiMode' = wifiMode
           /\ dnsStarted' = dnsStarted
           /\ server' = server
      /\ isConfigMode' /= isConfigMode => (pc \in {"boot", "join_check"} \/ pc' = "boot")
      /\ InLoop => (isConfigMode \/ Operating) ]_vars

\* Operating mode after the network was lost and the status LED went red
C30_Witness ==
  /\ pc = "loop"
  /\ Operating
  /\ wifiStatus = "WL_DISCONNECTED"
  /\ wifi_led = Red
  /\ lastWiFiCheck > 0
  /\ restartCause = "deferred"

(***************************************************************************)
(* Properties of the brightness, the deferred restart and what a restart   *)
(* keeps (SpecRun, SpecWrap, FairLoop, Spec, SpecKeep, SpecSettings).      *)
(***************************************************************************)
\* C31: once the device is in Operating mode and has drawn a clock frame, the
\* brightness of the LED driver is settings.brightness, also when no brightness
\* update was submitted since power-on
C31_BrightnessRestored ==
  (InLoop /\ ~isConfigMode /\ drawn /= NotDrawn) => brightness = settings.brightness

\* in a run in which no brightness is submitted (SpecRun) the driver keeps the
\* brightness of greenPulseEffect() for as long as the device is in Operating mode
PulseBrightnessStays == (InLoop /\ ~isConfigMode) => brightness = PULSE_BRIGHTNESS

\* the deferred restart executes
RestartFires == pc = "tail" /\ pc' = "boot"

\* millis() when the /save handler armed the restart: after its delay(100)
ArmedAt == ULong(handledAt + SAVE_FLUSH_DELAY_MS)

\* C32: with millis() an unsigned counter that wraps, the restart armed by a
\* credential update never executes less than 8000 ms after it was armed,
\* whatever the counter was at arming time
C32_RestartNotEarlyAtWrap ==
  [][ RestartFires => ULong(clock - ArmedAt) >= RESTART_DELAY_MS ]_vars

\* a restart armed more than 8000 ms before the wrap is not executed early
RestartNotEarlyAwayFromWrap ==
  [][ (RestartFires /\ handledAt + SAVE_FLUSH_DELAY_MS + RESTART_DELAY_MS < ULongMod) =>
        ULong(clock - ArmedAt) >= RESTART_DELAY_MS ]_vars

LongestIteration == CHOOSE d \in Durations : \A e \in Durations : e <= d

C34_RestartsByMode ==
  /\ []((InLoop /\ ~isConfigMode) => ~pendingRestart)
  /\ [][ /\ (~pendingRestart /\ pendingRestart') =>
              (isConfigMode /\ server = "config" /\ pc = "save_arm")
         /\ (pc = "handle" /\ pc' = "boot") =>
              (Operating /\ restartCause' = "factory")
         /\ (InLoop /\ pc' = "boot") =>
              IF isConfigMode THEN restartCause' = "deferred"
              ELSE restartCause' = "factory" ]_vars

\* a device that was restarted by a credential update and came up in Operating
\* mode was then reset to factory state
C34_Witness ==
  /\ pc = "boot"
  /\ restartCause = "factory"
  /\ restartsSinceSave = 1
  /\ ~pendingRestart
  /\ "wifiSSID" \notin DOMAIN preferences

\* the factory reset or the first half of a credential update is handled
CredentialStep ==
  pc = "handle" /\ ((pc' = "boot" /\ restartCause' = "factory") \/ pc' = "save_arm")

\* C35: a factory reset and a credential update leave every stored settings key
\* as it is, nothing else writes the settings store before the restart, and the
\* setup() that follows loads the settings from that store: after the restart
\* loadSettings() yields what was stored before the request, in every field
C35_SettingsSurviveCredentialChange ==
  [][ /\ CredentialStep =>
           \A key \in SettingsStoreKeys :
             /\ (key \in DOMAIN preferences') = (key \in DOMAIN preferences)
             /\ key \in DOMAIN preferences => preferences'[key] = preferences[key]
      /\ LoadSettings(preferences') = LoadSettings(preferences)
      /\ (pc = "boot" /\ pc' /= "boot") => settings' = LoadSettings(preferences) ]_vars

\* after a factory reset the device is in Provisioning mode with the settings of
\* the user loaded
C35_Witness ==
  /\ pc = "loop"
  /\ restartCause = "factory"
  /\ isConfigMode
  /\ "wifiSSID" \notin DOMAIN preferences
  /\ settings = UserSettings
  /\ Persisted(preferences, settings)

\* after the restart of a credential update the device is in Operating mode with
\* the settings of the user loaded
SettingsAfterCredentialUpdate ==
  /\ pc = "setup_done"
  /\ restartCause = "deferred"
  /\ ~isConfigMode
  /\ settings = UserSettings

\* the manual triple in the store
StoredTriple ==
  << PrefGet(preferences, "manualHour", DEFAULT_MANUAL_HOUR),
     PrefGet(preferences, "manualMinute", 0),
     PrefGet(preferences, "manualSecond", 0) >>

\* C36: the end of a loop() iteration with the manual clock on changes, of the
\* settings, the manual triple only, and writes nothing to the store; the store's
\* triple changes only when a settings update or a manual-time overwrite is
\* handled; the setup() after a restart starts the manual clock from the store's
\* triple, not from the ticked one
C36_TickNotPersisted ==
  [][ /\ ManualIterationEnds =>
           /\ preferences' = preferences
           /\ [settings' EXCEPT !.manualHour = settings.manualHour,
                                !.manualMinute = settings.manualMinute,
                                !.manualSecond = settings.manualSecond] = settings
           /\ ManualTriple' /= ManualTriple => lastManualUpdate' = clock
      /\ StoredTriple' /= StoredTriple => (SettingsStep \/ OverwriteStep)
      /\ (pc = "boot" /\ pc' /= "boot") =>
           (ManualTriple' = StoredTriple /\ StoredTriple' = StoredTriple) ]_vars

\* the manual clock has ticked past the minute a manual-time overwrite stored
C36_Witness ==
  /\ pc = "loop"
  /\ ~isConfigMode
  /\ settings.manualMode
  /\ request.route = "manualtime"
  /\ StoredTriple = <<DEFAULT_MANUAL_HOUR, 59, 0>>
  /\ ManualTriple = <<DEFAULT_MANUAL_HOUR, 59, 1>>

\* the device was power-cycled after a tick and its manual clock starts from the
\* stored triple
ManualClockResumesFromStore ==
  /\ restartCause = "cycle"
  /\ pc = "setup_done"
  /\ settings.manualMode
  /\ StoredTriple = <<DEFAULT_MANUAL_HOUR, 59, 0>>
  /\ ManualTriple = StoredTriple

(***************************************************************************)
(* Properties of the settings snapshot (SpecSnapshot).                     *)
(***************************************************************************)
SnapshotStep == pc = "handle" /\ pc' = "tail" /\ request'.route = "snapshot"

\* C37: posting the settings snapshot back as a settings update leaves every field
\* of the settings as it was
C37_SnapshotRoundTrip == [][ SnapshotStep => settings' = settings ]_vars

\* every field but the time format comes back as it was, and the time format comes
\* back as 12-hour: the handler looks for timeFormat":" , which the snapshot does
\* not hold, and reads the empty text before the first quote at or after index 12
SnapshotResetsTimeFormat ==
  [][ SnapshotStep => settings' = [settings EXCEPT !.use24Hour = FALSE] ]_vars

(***************************************************************************)
(* Properties of the LED slots and of the frame (SpecDisplay).             *)
(***************************************************************************)
\* the LEDs the loop of drawClock() over `bits' bits assigns for a value
Slots(table, bits, value) ==
  { table[bit + 1] : bit \in { b \in 0 .. (bits - 1) : BitSet(value, b) } }

TableSlots(table) == { table[i] : i \in 1 .. Len(table) }

LitLeds == { n \in LedIndex : leds[n] /= Black }

\* C38: the LED slots of the hour, minute and second fields are pairwise disjoint
\* and lie in 1 .. 17; so in a drawn frame no LED is assigned by two fields, LED 0
\* is dark and at most 17 LEDs are lit
C38_SlotsDisjoint ==
  /\ TableSlots(HOUR_LED) \cap TableSlots(MIN_LED) = {}
  /\ TableSlots(HOUR_LED) \cap TableSlots(SEC_LED) = {}
  /\ TableSlots(MIN_LED) \cap TableSlots(SEC_LED) = {}
  /\ (TableSlots(HOUR_LED) \cup TableSlots(MIN_LED) \cup TableSlots(SEC_LED))
       \subseteq 1 .. 17
  /\ drawn /= NotDrawn =>
       LET hourSlots == Slots(HOUR_LED, 5, drawn.hour)
           minuteSlots == Slots(MIN_LED, 6, drawn.minute)
           secondSlots == Slots(SEC_LED, 6, drawn.second)
       IN  /\ hourSlots \cap minuteSlots = {}
           /\ hourSlots \cap secondSlots = {}
           /\ minuteSlots \cap secondSlots = {}
           /\ LitLeds = hourSlots \cup minuteSlots \cup secondSlots
           /\ leds[0] = Black
           /\ Cardinality(LitLeds) <= 17

\* 23:59:59 is drawn in 24-hour mode: four hour LEDs, five minute LEDs, five second LEDs
C38_Witness ==
  /\ drawn /= NotDrawn
  /\ drawn.hour = 23
  /\ drawn.minute = 59
  /\ drawn.second = 59
  /\ LitLeds = {1, 3, 4, 5} \cup {6, 7, 8, 10, 11} \cup {12, 13, 14, 16, 17}

\* the hour twelve hours after h
HalfDayLater(h) == (h + 12) % 24

\* C39: the frame does not depend on isPM: drawClock() gives the same frame for
\* the other value of isPM, and with use24Hour off the frame drawn for the hour h of
\* the time source is the frame drawn for the hour twelve hours later (h and h + 12
\* for h in 1 .. 11, 0 and 12), minute, second and colours being equal
C39_FrameIgnoresPM ==
  drawn /= NotDrawn =>
    /\ leds = DrawClock(drawn.hour, drawn.minute, drawn.second, ~drawn.isPM, settings)
    /\ (~settings.use24Hour /\ SourceTime.hour \in 0 .. 23) =>
         /\ IsPM(HalfDayLater(SourceTime.hour)) = ~drawn.isPM
         /\ leds = DrawClock(DisplayHour(HalfDayLater(SourceTime.hour), FALSE),
                             SourceTime.minute, SourceTime.second,
                             IsPM(HalfDayLater(SourceTime.hour)), settings)

\* 1 PM on the 12-hour clock: the frame is that of 1 AM
C39_Witness ==
  /\ drawn /= NotDrawn
  /\ ~settings.use24Hour
  /\ SourceTime.hour = 13
  /\ drawn.hour = 1
  /\ drawn.isPM
  /\ leds = DrawClock(DisplayHour(1, FALSE), drawn.minute, drawn.second,
                      IsPM(1), settings)

\* noon on the 12-hour clock: the frame is that of midnight
NoonLooksLikeMidnight ==
  /\ drawn /= NotDrawn
  /\ ~settings.use24Hour
  /\ SourceTime.hour = 12
  /\ drawn.isPM
  /\ leds = DrawClock(DisplayHour(0, FALSE), drawn.minute, drawn.second,
                      IsPM(0), settings)

====
